---- MODULE Spec2Model ----
(***************************************************************************)
(* Pod log viewer (e-log): the session-scoped log streaming engine.        *)
(*                                                                         *)
(* Two programs of the repository are modelled:                            *)
(*   app.py    per-session state bundles (_sessions), simple worker that   *)
(*             ends on the first upstream error, warm start from Redis;    *)
(*   appv2.py  module-level state, retrying worker, no warm start.         *)
(* The variable `variant` says which program a behaviour is a run of.      *)
(*                                                                         *)
(* Every thread of the programs (request handlers, streamer workers, the   *)
(* /logs generators) is a record with a program counter; one action is one *)
(* access to state shared between threads, with the thread-local code that *)
(* follows it.                                                             *)
(*                                                                         *)
(* A string is a sequence of pieces: a piece is either the single space    *)
(* " " or a run of non-space characters.  str.split(' ', 1) is computed on *)
(* that sequence.                                                          *)
(***************************************************************************)
EXTENDS Integers, Sequences, FiniteSets, TLC

VARIABLES
    variant,             \* "app" | "appv2": which program runs
    ALLOWED_NAMESPACES,  \* process configuration, loaded once at startup
    sessions,            \* _sessions: session id -> state bundle (0: no entry)
    nbundles,            \* number of state bundles allocated so far
    current_pod,         \* per bundle: state['current_pod'] (None or a pod reference)
    log_queue,           \* per bundle: state['log_queue'], oldest item first
    stop_event,          \* per bundle: state['stop_event'].is_set()
    stream_thread,       \* per bundle: state['stream_thread'] (0: None, else a worker)
    cache,               \* Redis lists, one per key logs:<namespace>:<pod>
    thr,                 \* streamer worker threads
    nthreads,            \* number of worker threads created so far
    req,                 \* request handler threads (select_pod)
    feed,                \* /logs connections (generate)
    now,                 \* time.time(), in whole time units
    clears,              \* history: per bundle, the pods of the queue clears of start_log_streaming
    reqLeft,             \* select_pod requests the environment may still send
    cli                  \* the main thread: startup, the CLI menu loop, the exit

vars == <<variant, ALLOWED_NAMESPACES, sessions, nbundles, current_pod, log_queue,
          stop_event, stream_thread, cache, thr, nthreads, req, feed, now, clears,
          reqLeft, cli>>

-----------------------------------------------------------------------------
(* Bounds of the model *)

\* select_pod requests per behaviour
MaxRequests == 2
\* lines in a pod's log
LogLen == 2
\* the clock stops here
MaxTime == 23
\* upstream connections one retrying worker opens
MaxConns == 2
\* the number of calls of entry points from a state in which a worker streams
MaxCalls == 1
\* the longest list the cluster returns when it may return anything
MaxItems == 2
MaxTyped == 1      \* lines the input_reader threads read

(* Program constants *)

\* app.py:327, appv2.py:310: `if redis_client.llen(cache_key) > 1000`
MAX_CACHE == 1000
\* app.py:103, appv2.py:62: `elif current_time - last_yield_time > 10`
HEARTBEAT == 10

\* Python's None where a pod reference is expected
None == [name |-> "None", namespace |-> "None"]
SPACE == " "
\* the sentinel '__END__'
END == <<"__END__">>
\* f"Error streaming logs: {e}"
ERROR_MSG == <<"Error", " ", "streaming", " ", "logs:", " ", "e">>

-----------------------------------------------------------------------------
(* The cluster: pods and their logs *)

Sids == {"s1"}
\* main: cli_sid = 'cli-session'
CLI_SID == "cli-session"
\* the session ids of two browsers
WebSids == {"s1", "s2"}
AllSids == WebSids \cup {CLI_SID}
Handlers == {1, 2}
Conns == {1}
Bundles == 1..(MaxRequests + Cardinality(Conns))
Workers == 1..(MaxRequests + 1)

Pod(ns, name) == [name |-> name, namespace |-> ns]
\* the pods of the cluster, in the order the cluster lists them
ClusterList == <<Pod("kavosh", "p1"), Pod("kavosh", "p2"), Pod("ns1", "p1")>>
ClusterPods == {ClusterList[i] : i \in 1..Len(ClusterList)}
Namespaces == {"kavosh", "ns1"}
\* a pod whose log has lines that do not begin with a timestamp
RawPod == Pod("kavosh", "raw")
Keys == {Pod(ns, n) : ns \in Namespaces, n \in {"p1", "p2"}} \cup {RawPod}

Stamps == <<"t1", "t2", "t3", "t4", "t5">>

\* The log of a pod, as the upstream follow yields it line by line.
PodLog(pod) ==
    IF pod.namespace = "ns1"
    THEN << <<"2024-01-01T00:00:00Z", " ", "hello">> >>
    ELSE IF pod.name = "raw"
    THEN << <<"plain">>,
            <<"t1", " ", "a", " ", "b">>,
            <<"unable", " ", "to", " ", "retrieve">> >>
    ELSE [k \in 1..LogLen |-> <<Stamps[k], " ", pod.name>>]

Item(line, w) == [line |-> line, by |-> w]

-----------------------------------------------------------------------------
(* Thread records *)

NoThread ==
    [pc |-> "unborn", state |-> 0, pod |-> None, line |-> <<>>, pos |-> 0,
     out |-> <<>>, pre |-> <<>>, cleared |-> FALSE, erased |-> FALSE, ep |-> 0,
     why |-> "none",
     last_timestamp |-> <<>>, conn |-> 0,
     kw |-> [tail_lines |-> 0, since_time |-> <<>>],
     fwd |-> <<>>]      \* history: the upstream lines the retrying worker forwarded

NoReq ==
    [pc |-> "idle", sid |-> "none", state |-> 0, pod |-> None, t |-> 0,
     kind |-> "select",  \* the entry point: select, pods, list, start, cli, cli_end
     body |-> <<>>,      \* the list returned
     answer |-> <<>>,    \* history: the list the cluster returned to the call
     cached_logs |-> <<>>, resp |-> "none", ep |-> 0, tr |-> <<>>]

\* the main thread when the process runs without a terminal: startup is done, the
\* web server thread runs, main sleeps in its `while True` loop
Serving ==
    [pc |-> "serve", flask |-> TRUE, kube |-> "ok", current_namespace |-> "",
     pods |-> <<>>,
     choice |-> "none",  \* history: the last menu input
     before |-> "",      \* history: the namespace filter when it was typed
     status |-> -1,      \* the exit status of the process, -1 while it runs
     input_queue |-> <<>>,  \* state['input_queue'] of 'cli-session'
     readers |-> <<>>,   \* the input_reader threads started, one per streaming run
     read |-> <<>>,      \* history: the lines the input_reader threads have read
     ended |-> [why |-> "none", of |-> 0, run |-> 0, at |-> "none"]]  \* history: why
                         \* streaming run `of` ended, and where its 'q' was typed

NoEvent == [kind |-> "none", line |-> <<>>, by |-> 0, stale |-> FALSE]

NoFeed ==
    [pc |-> "new", sid |-> "none", state |-> 0, has_yielded_waiting |-> FALSE,
     last_yield_time |-> 0, ev |-> NoEvent,
     got |-> <<>>,       \* history: the lines of the log events emitted
     deq |-> <<>>,       \* history: the items get() returned, '__END__' excepted
     idle |-> <<>>,      \* history: the waiting and heartbeat events since the last log event
     empty |-> FALSE,    \* history: the queue was found empty since the last log event
     nopod |-> FALSE,    \* history: 'No pod selected' was emitted since the last log event
     nwait |-> 0]        \* history: number of 'Waiting for logs...' events emitted

is_alive(w) == thr[w].pc \notin {"unborn", "done"}

\* the worker is in its loop over the upstream lines
InLoop(w) == thr[w].pc \in {"loop", "read", "check", "put"}

-----------------------------------------------------------------------------
(* Initial state of app.py: nothing selected, no session yet *)

InitCommon ==
    /\ sessions = [s \in AllSids |-> 0]
    /\ nbundles = 0
    /\ current_pod = [b \in Bundles |-> None]
    /\ log_queue = [b \in Bundles |-> <<>>]
    /\ stop_event = [b \in Bundles |-> FALSE]
    /\ stream_thread = [b \in Bundles |-> 0]
    /\ cache = [k \in Keys |-> <<>>]
    /\ thr = [w \in Workers |-> NoThread]
    /\ nthreads = 0
    /\ req = [h \in Handlers |-> NoReq]
    /\ feed = [c \in Conns |-> NoFeed]
    /\ now = 0
    /\ clears = [b \in Bundles |-> <<>>]

InitApp ==
    /\ variant = "app"
    /\ cli = Serving
    /\ ALLOWED_NAMESPACES = {"kavosh", "secure", "bizagi"}
    /\ reqLeft = MaxRequests
    /\ InitCommon

-----------------------------------------------------------------------------
(* app.py: select_pod and the functions it calls *)

\* a select_pod without the allow-list check
Entered_unchecked(r, b) == [r EXCEPT !.state = b, !.pc = "stop_set"]

\* select_pod after `sid, state = _get_or_create_state()`: the allow-list check
Entered(r, b) ==
    IF r.pod.namespace \in ALLOWED_NAMESPACES
    THEN [r EXCEPT !.state = b, !.pc = "stop_set"]
    ELSE [r EXCEPT !.state = b, !.pc = "idle", !.resp = "403"]

\* A /select_pod/<namespace>/<pod_name> request arrives; _get_or_create_state
\* tests `sid not in _sessions`.
select_pod(h, sid, pod) ==
    /\ variant = "app"
    /\ req[h].pc = "idle"
    /\ reqLeft > 0
    /\ reqLeft' = reqLeft - 1
    /\ LET r == [NoReq EXCEPT !.sid = sid, !.pod = pod]
       IN  req' = [req EXCEPT ![h] =
                      IF sessions[sid] # 0 THEN Entered(r, sessions[sid])
                      ELSE [r EXCEPT !.pc = "create"]]
    /\ UNCHANGED <<variant, ALLOWED_NAMESPACES, sessions, nbundles, current_pod,
                   log_queue, stop_event, stream_thread, cache, thr, nthreads, feed,
                   now, clears, cli>>

\* _get_or_create_state: `_sessions[sid] = {...}` with a fresh bundle, and the return
select_pod_create(h) ==
    /\ req[h].pc = "create"
    /\ nbundles' = nbundles + 1
    /\ sessions' = [sessions EXCEPT ![req[h].sid] = nbundles + 1]
    /\ req' = [req EXCEPT ![h] = Entered(@, nbundles + 1)]
    /\ UNCHANGED <<variant, ALLOWED_NAMESPACES, current_pod, log_queue, stop_event,
                   stream_thread, cache, thr, nthreads, feed, now, clears, reqLeft, cli>>

\* where the caller goes on when stop_log_streaming has returned: select_pod with the
\* warm start of app.py or the queue clear of appv2.py, stream_pod_logs with
\* start_log_streaming, and its `finally` with the return
AfterStop(kind) ==
    IF kind = "cli" THEN "start"
    ELSE IF kind = "cli_end" THEN "idle"
    ELSE IF variant = "app" THEN "lrange" ELSE "select_clear"

\* where the caller goes on when start_log_streaming has returned: stream_pod_logs
\* with its input loop, the others return
AfterStart(r) ==
    [r EXCEPT !.pc = IF r.kind = "cli" THEN "cli_loop" ELSE "idle",
              !.resp = IF r.kind = "select" THEN "OK" ELSE @]

\* a stop_log_streaming that raises the stop signal of every session
stop_set_all(h) ==
    /\ req[h].pc = "stop_set"
    /\ stop_event' = [b \in Bundles |-> TRUE]
    /\ req' = [req EXCEPT ![h].pc = "stop_join"]
    /\ UNCHANGED <<variant, ALLOWED_NAMESPACES, sessions, nbundles, current_pod,
                   log_queue, stream_thread, cache, thr, nthreads, feed, now, clears,
                   reqLeft, cli>>

\* stop_log_streaming: state['stop_event'].set()
stop_set(h) ==
    /\ req[h].pc = "stop_set"
    /\ stop_event' = [stop_event EXCEPT ![req[h].state] = TRUE]
    /\ req' = [req EXCEPT ![h].pc = "stop_join"]
    /\ UNCHANGED <<variant, ALLOWED_NAMESPACES, sessions, nbundles, current_pod,
                   log_queue, stream_thread, cache, thr, nthreads, feed, now, clears,
                   reqLeft, cli>>

\* stop_log_streaming: `if state.get('stream_thread') and state['stream_thread'].is_alive()`
stop_join(h) ==
    /\ req[h].pc = "stop_join"
    /\ LET t == stream_thread[req[h].state]
       IN  req' = [req EXCEPT ![h] =
                      IF t # 0 /\ is_alive(t)
                      THEN [@ EXCEPT !.pc = "joining", !.t = t]
                      ELSE [@ EXCEPT !.pc = AfterStop(req[h].kind)]]
    /\ UNCHANGED <<variant, ALLOWED_NAMESPACES, sessions, nbundles, current_pod,
                   log_queue, stop_event, stream_thread, cache, thr, nthreads, feed,
                   now, clears, reqLeft, cli>>

\* stop_log_streaming: what follows join(timeout=2.0): state['stream_thread'] = None
Joined(h) ==
    /\ stream_thread' = [stream_thread EXCEPT ![req[h].state] = 0]
    /\ req' = [req EXCEPT ![h].pc = AfterStop(req[h].kind)]
    /\ UNCHANGED <<variant, ALLOWED_NAMESPACES, sessions, nbundles, current_pod,
                   log_queue, stop_event, cache, thr, nthreads, feed, now, clears,
                   reqLeft, cli>>

\* a join without a timeout: it returns only when the worker has ended
join_unbounded(h) ==
    /\ req[h].pc = "joining"
    /\ ~is_alive(req[h].t)
    /\ Joined(h)

\* join(timeout=2.0) returns because the worker has ended
join_done(h) ==
    /\ req[h].pc = "joining"
    /\ ~is_alive(req[h].t)
    /\ Joined(h)

\* join(timeout=2.0) returns because 2.0 time units have passed: the worker still runs
join_timeout(h) ==
    /\ req[h].pc = "joining"
    /\ is_alive(req[h].t)
    /\ Joined(h)

\* select_pod: cached_logs = redis_client.lrange(cache_key, 0, -1), then
\* `for log in cached_logs: state['log_queue'].put(log)`
lrange(h) ==
    /\ req[h].pc = "lrange"
    /\ LET got == cache[req[h].pod]
       IN  /\ log_queue' = [log_queue EXCEPT ![req[h].state] =
                               @ \o [i \in 1..Len(got) |-> Item(got[i], 0)]]
           /\ req' = [req EXCEPT ![h] =
                         [@ EXCEPT !.pc = "start", !.cached_logs = got,
                                   !.tr = IF got # <<>> THEN Append(@, "warm") ELSE @]]
    /\ UNCHANGED <<variant, ALLOWED_NAMESPACES, sessions, nbundles, current_pod,
                   stop_event, stream_thread, cache, thr, nthreads, feed, now, clears,
                   reqLeft, cli>>

\* start_log_streaming: the allow-list check, state['current_pod'] = {...} and
\* state['stop_event'].clear()
start_log_streaming(h) ==
    /\ req[h].pc = "start"
    /\ IF req[h].pod.namespace \notin ALLOWED_NAMESPACES
       THEN /\ req' = [req EXCEPT ![h] = AfterStart(@)]
            /\ UNCHANGED <<current_pod, stop_event, thr, cli>>
       ELSE /\ current_pod' = [current_pod EXCEPT ![req[h].state] = req[h].pod]
            /\ stop_event' = [stop_event EXCEPT ![req[h].state] = FALSE]
            /\ thr' = [w \in Workers |->
                          IF is_alive(w) /\ thr[w].state = req[h].state
                          THEN [thr[w] EXCEPT
                                   !.cleared = TRUE,
                                   !.erased = @ \/ (InLoop(w) /\ stop_event[req[h].state])]
                          ELSE thr[w]]
            /\ req' = [req EXCEPT ![h].pc = "clear_queue"]
    /\ UNCHANGED <<variant, ALLOWED_NAMESPACES, sessions, nbundles, log_queue,
                   stream_thread, cache, nthreads, feed, now, clears, reqLeft, cli>>

\* start_log_streaming: `while not state['log_queue'].empty(): get_nowait()`
clear_queue(h) ==
    /\ req[h].pc = "clear_queue"
    /\ log_queue' = [log_queue EXCEPT ![req[h].state] = <<>>]
    /\ clears' = [clears EXCEPT ![req[h].state] = Append(@, req[h].pod)]
    /\ req' = [req EXCEPT ![h] =
                  [@ EXCEPT !.pc = "thread_start", !.tr = Append(@, "clear"),
                            !.ep = Len(clears[req[h].state]) + 1]]
    /\ UNCHANGED <<variant, ALLOWED_NAMESPACES, sessions, nbundles, current_pod,
                   stop_event, stream_thread, cache, thr, nthreads, feed, now, reqLeft,
                   cli>>

\* start_log_streaming: redis_client.delete(cache_key), then
\* state['stream_thread'] = threading.Thread(target=streamer) and its start()
thread_start(h) ==
    /\ req[h].pc = "thread_start"
    /\ cache' = [cache EXCEPT ![req[h].pod] = <<>>]
    /\ nthreads' = nthreads + 1
    /\ thr' = [thr EXCEPT ![nthreads + 1] =
                  [NoThread EXCEPT !.pc = IF variant = "app" THEN "read" ELSE "loop",
                                   !.state = req[h].state,
                                   !.pod = req[h].pod, !.ep = req[h].ep]]
    /\ stream_thread' = [stream_thread EXCEPT ![req[h].state] = nthreads + 1]
    /\ req' = [req EXCEPT ![h] = AfterStart([@ EXCEPT !.tr = Append(@, "start")])]
    /\ UNCHANGED <<variant, ALLOWED_NAMESPACES, sessions, nbundles, current_pod,
                   log_queue, stop_event, feed, now, clears, reqLeft, cli>>

-----------------------------------------------------------------------------
(* app.py: the streamer worker of start_log_streaming *)

\* `for line in w.stream(...)`: the upstream follow yields the next line of the log
read_line(w) ==
    /\ variant = "app"
    /\ thr[w].pc = "read"
    /\ thr[w].pos < Len(PodLog(thr[w].pod))
    /\ LET line == PodLog(thr[w].pod)[thr[w].pos + 1]
       IN  thr' = [thr EXCEPT ![w] =
                      [@ EXCEPT !.pc = "check", !.line = line, !.pos = @ + 1,
                                !.pre = IF stop_event[thr[w].state] THEN @
                                        ELSE Append(@, line)]]
    /\ UNCHANGED <<variant, ALLOWED_NAMESPACES, sessions, nbundles, current_pod,
                   log_queue, stop_event, stream_thread, cache, nthreads, req, feed,
                   now, clears, reqLeft, cli>>

\* `for line in w.stream(...)`: the upstream follow ends normally
read_close(w) ==
    /\ variant = "app"
    /\ thr[w].pc = "read"
    /\ thr' = [thr EXCEPT ![w] = [@ EXCEPT !.pc = "finally", !.why = "close"]]
    /\ UNCHANGED <<variant, ALLOWED_NAMESPACES, sessions, nbundles, current_pod,
                   log_queue, stop_event, stream_thread, cache, nthreads, req, feed,
                   now, clears, reqLeft, cli>>

\* `for line in w.stream(...)`: the upstream raises ApiException
read_error(w) ==
    /\ variant = "app"
    /\ thr[w].pc = "read"
    /\ thr' = [thr EXCEPT ![w] = [@ EXCEPT !.pc = "except", !.why = "error"]]
    /\ UNCHANGED <<variant, ALLOWED_NAMESPACES, sessions, nbundles, current_pod,
                   log_queue, stop_event, stream_thread, cache, nthreads, req, feed,
                   now, clears, reqLeft, cli>>

\* a worker that forwards every line, whatever the stop signal
check_stop_blind(w) ==
    /\ variant = "app"
    /\ thr[w].pc = "check"
    /\ thr' = [thr EXCEPT ![w] = [@ EXCEPT !.pc = "put"]]
    /\ UNCHANGED <<variant, ALLOWED_NAMESPACES, sessions, nbundles, current_pod,
                   log_queue, stop_event, stream_thread, cache, nthreads, req, feed,
                   now, clears, reqLeft, cli>>

\* `if state['stop_event'].is_set(): break`
check_stop(w) ==
    /\ variant = "app"
    /\ thr[w].pc = "check"
    /\ thr' = [thr EXCEPT ![w] =
                  IF stop_event[thr[w].state]
                  THEN [@ EXCEPT !.pc = "finally", !.why = "stop"]
                  ELSE [@ EXCEPT !.pc = "put"]]
    /\ UNCHANGED <<variant, ALLOWED_NAMESPACES, sessions, nbundles, current_pod,
                   log_queue, stop_event, stream_thread, cache, nthreads, req, feed,
                   now, clears, reqLeft, cli>>

\* a trim that removes the newest entry
Trimmed_newest(list) ==
    IF Len(list) > MAX_CACHE THEN SubSeq(list, 1, Len(list) - 1) ELSE list

\* `if redis_client.llen(cache_key) > 1000: redis_client.lpop(cache_key)`
Trimmed(list) == IF Len(list) > MAX_CACHE THEN Tail(list) ELSE list

\* a worker that appends the line to the cache but does not put it on the queue
put_line_cache_only(w) ==
    /\ variant = "app"
    /\ thr[w].pc = "put"
    /\ cache' = [cache EXCEPT ![thr[w].pod] = Trimmed(Append(@, thr[w].line))]
    /\ thr' = [thr EXCEPT ![w] = [@ EXCEPT !.pc = "read"]]
    /\ UNCHANGED <<variant, ALLOWED_NAMESPACES, sessions, nbundles, current_pod, log_queue,
                   stop_event, stream_thread, nthreads, req, feed, now, clears, reqLeft,
                   cli>>

\* state['log_queue'].put(line); redis_client.rpush(cache_key, line) and the trim
put_line(w) ==
    /\ variant = "app"
    /\ thr[w].pc = "put"
    /\ log_queue' = [log_queue EXCEPT ![thr[w].state] = Append(@, Item(thr[w].line, w))]
    /\ cache' = [cache EXCEPT ![thr[w].pod] = Trimmed(Append(@, thr[w].line))]
    /\ thr' = [thr EXCEPT ![w] = [@ EXCEPT !.pc = "read", !.out = Append(@, thr[w].line)]]
    /\ UNCHANGED <<variant, ALLOWED_NAMESPACES, sessions, nbundles, current_pod,
                   stop_event, stream_thread, nthreads, req, feed, now, clears, reqLeft,
                   cli>>

\* a worker that reports the upstream error on the queue only
except_put_queue_only(w) ==
    /\ variant = "app"
    /\ thr[w].pc = "except"
    /\ log_queue' = [log_queue EXCEPT ![thr[w].state] = Append(@, Item(ERROR_MSG, w))]
    /\ thr' = [thr EXCEPT ![w] = [@ EXCEPT !.pc = "finally", !.out = Append(@, ERROR_MSG)]]
    /\ UNCHANGED <<variant, ALLOWED_NAMESPACES, sessions, nbundles, current_pod, cache,
                   stop_event, stream_thread, nthreads, req, feed, now, clears, reqLeft,
                   cli>>

\* `except ApiException`: state['log_queue'].put(error_msg);
\* redis_client.rpush(cache_key, error_msg)
except_put(w) ==
    /\ variant = "app"
    /\ thr[w].pc = "except"
    /\ log_queue' = [log_queue EXCEPT ![thr[w].state] = Append(@, Item(ERROR_MSG, w))]
    /\ cache' = [cache EXCEPT ![thr[w].pod] = Append(@, ERROR_MSG)]
    /\ thr' = [thr EXCEPT ![w] = [@ EXCEPT !.pc = "finally", !.out = Append(@, ERROR_MSG)]]
    /\ UNCHANGED <<variant, ALLOWED_NAMESPACES, sessions, nbundles, current_pod,
                   stop_event, stream_thread, nthreads, req, feed, now, clears, reqLeft,
                   cli>>

\* a worker whose exit path puts the sentinel twice
finally_put_twice(w) ==
    /\ variant = "app"
    /\ thr[w].pc = "finally"
    /\ log_queue' = [log_queue EXCEPT ![thr[w].state] = @ \o <<Item(END, w), Item(END, w)>>]
    /\ current_pod' = [current_pod EXCEPT ![thr[w].state] = None]
    /\ thr' = [thr EXCEPT ![w] = [@ EXCEPT !.pc = "done", !.out = @ \o <<END, END>>]]
    /\ UNCHANGED <<variant, ALLOWED_NAMESPACES, sessions, nbundles, stop_event,
                   stream_thread, cache, nthreads, req, feed, now, clears, reqLeft, cli>>

\* `finally`: w.stop(); state['log_queue'].put('__END__'); state['current_pod'] = None,
\* and the thread ends
finally_put(w) ==
    /\ variant = "app"
    /\ thr[w].pc = "finally"
    /\ log_queue' = [log_queue EXCEPT ![thr[w].state] = Append(@, Item(END, w))]
    /\ current_pod' = [current_pod EXCEPT ![thr[w].state] = None]
    /\ thr' = [thr EXCEPT ![w] = [@ EXCEPT !.pc = "done", !.out = Append(@, END)]]
    /\ UNCHANGED <<variant, ALLOWED_NAMESPACES, sessions, nbundles, stop_event,
                   stream_thread, cache, nthreads, req, feed, now, clears, reqLeft, cli>>

-----------------------------------------------------------------------------
(* app.py: the /logs endpoint and its generator *)

\* an emitted event
Event(kind) == [NoEvent EXCEPT !.kind = kind]

\* generate() starts: the connection acknowledgement, last_yield_time = time.time()
Started(f, b) ==
    [f EXCEPT !.state = b, !.pc = "loop", !.ev = Event("connected"),
              !.last_yield_time = now, !.has_yielded_waiting = FALSE]

\* A /logs request arrives; _get_or_create_state tests `sid not in _sessions`.
logs(c, sid) ==
    /\ variant = "app"
    /\ feed[c].pc = "new"
    /\ feed' = [feed EXCEPT ![c] =
                   IF sessions[sid] # 0 THEN Started([@ EXCEPT !.sid = sid], sessions[sid])
                   ELSE [@ EXCEPT !.sid = sid, !.pc = "create"]]
    /\ UNCHANGED <<variant, ALLOWED_NAMESPACES, sessions, nbundles, current_pod,
                   log_queue, stop_event, stream_thread, cache, thr, nthreads, req, now,
                   clears, reqLeft, cli>>

\* _get_or_create_state: `_sessions[sid] = {...}` with a fresh bundle, and the return
logs_create(c) ==
    /\ feed[c].pc = "create"
    /\ nbundles' = nbundles + 1
    /\ sessions' = [sessions EXCEPT ![feed[c].sid] = nbundles + 1]
    /\ feed' = [feed EXCEPT ![c] = Started(@, nbundles + 1)]
    /\ UNCHANGED <<variant, ALLOWED_NAMESPACES, current_pod, log_queue, stop_event,
                   stream_thread, cache, thr, nthreads, req, now, clears, reqLeft, cli>>

\* the final 'Log stream ended' status event; the generator returns
Ended(f, by, stale) ==
    [f EXCEPT !.pc = "closed",
              !.ev = [kind |-> "ended", line |-> <<>>, by |-> by, stale |-> stale]]

\* history: the worker w that put an item ran for a pod other than the pod of a
\* later queue clear of start_log_streaming on the same bundle
Stale(b, w) ==
    /\ w # 0
    /\ \E e \in (thr[w].ep + 1)..Len(clears[b]) : clears[b][e] # thr[w].pod

\* line = state['log_queue'].get(timeout=0.05) returns an item
Dequeued(f, x) ==
    IF x.line = END THEN Ended(f, x.by, Stale(f.state, x.by))
    ELSE [f EXCEPT !.pc = "loop",
                   !.ev = [kind |-> "log", line |-> x.line, by |-> x.by,
                           stale |-> Stale(f.state, x.by)],
                   !.last_yield_time = now,
                   !.has_yielded_waiting = FALSE,
                   !.got = Append(@, x.line), !.deq = Append(@, x),
                   !.idle = <<>>, !.empty = FALSE, !.nopod = FALSE]

\* a generator that never sets has_yielded_waiting
Idle_flag_unset(f, pod) ==
    IF pod = None
    THEN [f EXCEPT !.ev = Event("nopod"), !.last_yield_time = now,
                   !.empty = TRUE, !.nopod = TRUE]
    ELSE [f EXCEPT !.ev = Event("waiting"), !.last_yield_time = now,
                   !.idle = Append(@, [kind |-> "waiting", t |-> now]),
                   !.empty = TRUE, !.nwait = @ + 1]

\* a generator that sends the last log event again when it finds the queue empty
Idle_repeats_log(f, pod) ==
    IF f.got = <<>> THEN f
    ELSE [f EXCEPT !.ev = [kind |-> "log", line |-> f.got[Len(f.got)], by |-> 0,
                           stale |-> FALSE],
                   !.got = Append(@, f.got[Len(f.got)])]

\* `except queue.Empty`: the status events and the heartbeat, then time.sleep(0.05)
Idle(f, pod) ==
    IF pod = None
    THEN [f EXCEPT !.ev = Event("nopod"), !.last_yield_time = now,
                   !.empty = TRUE, !.nopod = TRUE]
    ELSE IF ~f.has_yielded_waiting
    THEN [f EXCEPT !.ev = Event("waiting"), !.last_yield_time = now,
                   !.has_yielded_waiting = TRUE,
                   !.idle = Append(@, [kind |-> "waiting", t |-> now]),
                   !.empty = TRUE, !.nwait = @ + 1]
    ELSE IF now - f.last_yield_time > HEARTBEAT
    THEN [f EXCEPT !.ev = Event("heartbeat"), !.last_yield_time = now,
                   !.idle = Append(@, [kind |-> "heartbeat", t |-> now]),
                   !.empty = TRUE]
    ELSE [f EXCEPT !.empty = TRUE]

\* a generator whose get() leaves the item on the queue
generate_peek(c) ==
    /\ variant = "app"
    /\ feed[c].pc = "loop"
    /\ LET q == log_queue[feed[c].state]
       IN  IF stop_event[feed[c].state]
           THEN feed' = [feed EXCEPT ![c] = Ended(@, 0, FALSE)]
           ELSE IF q # <<>>
           THEN feed' = [feed EXCEPT ![c] = Dequeued(@, Head(q))]
           ELSE feed' = [feed EXCEPT ![c] = Idle(@, current_pod[feed[c].state])]
    /\ UNCHANGED <<variant, ALLOWED_NAMESPACES, sessions, nbundles, current_pod,
                   log_queue, stop_event, stream_thread, cache, thr, nthreads, req, now,
                   clears, reqLeft, cli>>

\* one pass of `while not state['stop_event'].is_set()` and its try block
generate(c) ==
    /\ variant = "app"
    /\ feed[c].pc = "loop"
    /\ LET q == log_queue[feed[c].state]
       IN  IF stop_event[feed[c].state]
           THEN /\ feed' = [feed EXCEPT ![c] = Ended(@, 0, FALSE)]
                /\ UNCHANGED log_queue
           ELSE IF q # <<>>
           THEN /\ log_queue' = [log_queue EXCEPT ![feed[c].state] = Tail(q)]
                /\ feed' = [feed EXCEPT ![c] = Dequeued(@, Head(q))]
           ELSE /\ feed' = [feed EXCEPT ![c] = Idle(@, current_pod[feed[c].state])]
                /\ UNCHANGED log_queue
    /\ UNCHANGED <<variant, ALLOWED_NAMESPACES, sessions, nbundles, current_pod,
                   stop_event, stream_thread, cache, thr, nthreads, req, now, clears,
                   reqLeft, cli>>

\* time passes
Tick ==
    /\ now < MaxTime
    /\ now' = now + 1
    /\ UNCHANGED <<variant, ALLOWED_NAMESPACES, sessions, nbundles, current_pod,
                   log_queue, stop_event, stream_thread, cache, thr, nthreads, req,
                   feed, clears, reqLeft, cli>>

-----------------------------------------------------------------------------
(* appv2.py: module-level state (bundle 1), select_pod without warm start *)

InitV2 ==
    /\ variant = "appv2"
    /\ cli = Serving
    /\ ALLOWED_NAMESPACES = {"kavosh", "secure", "bizagi"}
    /\ reqLeft = MaxRequests
    /\ sessions = [s \in AllSids |-> 0]
    /\ nbundles = 1
    /\ current_pod = [b \in Bundles |-> None]
    /\ log_queue = [b \in Bundles |-> <<>>]
    /\ stop_event = [b \in Bundles |-> FALSE]
    /\ stream_thread = [b \in Bundles |-> 0]
    /\ cache = [k \in Keys |-> <<>>]
    /\ thr = [w \in Workers |-> NoThread]
    /\ nthreads = 0
    /\ req = [h \in Handlers |-> NoReq]
    /\ feed = [c \in Conns |-> NoFeed]
    /\ now = 0
    /\ clears = [b \in Bundles |-> <<>>]

\* A /select_pod/<namespace>/<pod_name> request arrives: the allow-list check
select_pod_v2(h, pod) ==
    /\ variant = "appv2"
    /\ req[h].pc = "idle"
    /\ reqLeft > 0
    /\ reqLeft' = reqLeft - 1
    /\ req' = [req EXCEPT ![h] = Entered([NoReq EXCEPT !.pod = pod], 1)]
    /\ UNCHANGED <<variant, ALLOWED_NAMESPACES, sessions, nbundles, current_pod,
                   log_queue, stop_event, stream_thread, cache, thr, nthreads, feed,
                   now, clears, cli>>

\* select_pod: `while not log_queue.empty(): log_queue.get_nowait()`
select_clear(h) ==
    /\ req[h].pc = "select_clear"
    /\ log_queue' = [log_queue EXCEPT ![req[h].state] = <<>>]
    /\ req' = [req EXCEPT ![h].pc = "start"]
    /\ UNCHANGED <<variant, ALLOWED_NAMESPACES, sessions, nbundles, current_pod,
                   stop_event, stream_thread, cache, thr, nthreads, feed, now, clears,
                   reqLeft, cli>>

-----------------------------------------------------------------------------
(* appv2.py: the retrying streamer worker *)

\* the index of the first space of a line, 0 when it has none
FirstSpace(line) ==
    IF \E i \in 1..Len(line) : line[i] = SPACE
    THEN CHOOSE i \in 1..Len(line) : line[i] = SPACE /\ \A j \in 1..(i - 1) : line[j] # SPACE
    ELSE 0

\* line.split(' ', 1)
Split(line) ==
    IF FirstSpace(line) = 0 THEN <<line>>
    ELSE <<SubSeq(line, 1, FirstSpace(line) - 1),
           SubSeq(line, FirstSpace(line) + 1, Len(line))>>

\* `msg` of the streamer: parts[1] when the split gives two parts, else the line
Msg(line) == IF Len(Split(line)) = 2 THEN Split(line)[2] ELSE line

\* `last_timestamp` after the line: parts[0] when the split gives two parts
Stamp(line, last) == IF Len(Split(line)) = 2 THEN <<Split(line)[1]>> ELSE last

\* a follow that asks for the last 100 lines on every connection
Kwargs_always_tail(last) ==
    [tail_lines |-> 100,
     since_time |-> IF last # <<>> /\ last[1] # <<>> THEN last ELSE <<>>]

\* the keyword arguments of the follow: 'tail_lines' and, when last_timestamp is
\* truthy, 'since_time'
Kwargs(last) ==
    [tail_lines |-> IF last = <<>> THEN 100 ELSE 0,
     since_time |-> IF last # <<>> /\ last[1] # <<>> THEN last ELSE <<>>]

\* The upstream follow: the positions of the log a follow with these arguments may
\* start at.  The last 100 lines are the whole of a short log; since_time resumes at
\* the line that bears the timestamp, which the source may or may not send again;
\* with neither, the follow starts at the end of the log.
FollowFrom(log, kw) ==
    IF kw.tail_lines > 0 THEN {0}
    ELSE IF kw.since_time = <<>> THEN {Len(log)}
    ELSE LET at == {k \in 1..Len(log) : Stamp(log[k], <<>>) = kw.since_time}
         IN  IF at = {} THEN {Len(log)}
             ELSE LET k == CHOOSE x \in at : \A y \in at : x <= y IN {k - 1, k}

\* a worker that gives up after an upstream error instead of connecting again
v2_loop_no_retry(w) ==
    /\ variant = "appv2"
    /\ thr[w].pc = "loop"
    /\ IF stop_event[thr[w].state] \/ thr[w].why = "error"
       THEN thr' = [thr EXCEPT ![w] = [@ EXCEPT !.pc = "end"]]
       ELSE \E start \in FollowFrom(PodLog(thr[w].pod), Kwargs(thr[w].last_timestamp)) :
               thr' = [thr EXCEPT ![w] =
                          [@ EXCEPT !.pc = "read", !.pos = start, !.conn = @ + 1,
                                    !.kw = Kwargs(thr[w].last_timestamp)]]
    /\ UNCHANGED <<variant, ALLOWED_NAMESPACES, sessions, nbundles, current_pod,
                   log_queue, stop_event, stream_thread, cache, nthreads, req, feed,
                   now, clears, reqLeft, cli>>

\* `while not stop_event.is_set()`: leave the loop, or open the next upstream follow
v2_loop(w) ==
    /\ variant = "appv2"
    /\ thr[w].pc = "loop"
    /\ IF stop_event[thr[w].state]
       THEN thr' = [thr EXCEPT ![w] = [@ EXCEPT !.pc = "end"]]
       ELSE \E start \in FollowFrom(PodLog(thr[w].pod), Kwargs(thr[w].last_timestamp)) :
               thr' = [thr EXCEPT ![w] =
                          [@ EXCEPT !.pc = "read", !.pos = start, !.conn = @ + 1,
                                    !.kw = Kwargs(thr[w].last_timestamp)]]
    /\ UNCHANGED <<variant, ALLOWED_NAMESPACES, sessions, nbundles, current_pod,
                   log_queue, stop_event, stream_thread, cache, nthreads, req, feed,
                   now, clears, reqLeft, cli>>

\* `for line in w.stream(...)`: the upstream follow yields the next line of the log
v2_read_line(w) ==
    /\ variant = "appv2"
    /\ thr[w].pc = "read"
    /\ thr[w].pos < Len(PodLog(thr[w].pod))
    /\ LET line == PodLog(thr[w].pod)[thr[w].pos + 1]
       IN  thr' = [thr EXCEPT ![w] =
                      [@ EXCEPT !.pc = "check", !.line = line, !.pos = @ + 1,
                                !.pre = IF stop_event[thr[w].state] THEN @
                                        ELSE Append(@, line)]]
    /\ UNCHANGED <<variant, ALLOWED_NAMESPACES, sessions, nbundles, current_pod,
                   log_queue, stop_event, stream_thread, cache, nthreads, req, feed,
                   now, clears, reqLeft, cli>>

\* `for line in w.stream(...)`: the upstream follow ends normally; `finally: w.stop()`
v2_read_close(w) ==
    /\ variant = "appv2"
    /\ thr[w].pc = "read"
    /\ thr[w].conn < MaxConns
    /\ thr' = [thr EXCEPT ![w] = [@ EXCEPT !.pc = "loop", !.why = "close"]]
    /\ UNCHANGED <<variant, ALLOWED_NAMESPACES, sessions, nbundles, current_pod,
                   log_queue, stop_event, stream_thread, cache, nthreads, req, feed,
                   now, clears, reqLeft, cli>>

\* `for line in w.stream(...)`: the upstream raises ApiException
v2_read_error(w) ==
    /\ variant = "appv2"
    /\ thr[w].pc = "read"
    /\ thr[w].conn < MaxConns
    /\ thr' = [thr EXCEPT ![w] = [@ EXCEPT !.pc = "except", !.why = "error"]]
    /\ UNCHANGED <<variant, ALLOWED_NAMESPACES, sessions, nbundles, current_pod,
                   log_queue, stop_event, stream_thread, cache, nthreads, req, feed,
                   now, clears, reqLeft, cli>>

\* `if stop_event.is_set(): break`, then `finally: w.stop()`
v2_check_stop(w) ==
    /\ variant = "appv2"
    /\ thr[w].pc = "check"
    /\ thr' = [thr EXCEPT ![w] =
                  IF stop_event[thr[w].state]
                  THEN [@ EXCEPT !.pc = "loop", !.why = "stop"]
                  ELSE [@ EXCEPT !.pc = "put"]]
    /\ UNCHANGED <<variant, ALLOWED_NAMESPACES, sessions, nbundles, current_pod,
                   log_queue, stop_event, stream_thread, cache, nthreads, req, feed,
                   now, clears, reqLeft, cli>>

\* the split of the line; log_queue.put(msg); redis_client.rpush(cache_key, msg) and
\* the trim
v2_put_line(w) ==
    /\ variant = "appv2"
    /\ thr[w].pc = "put"
    /\ LET msg == Msg(thr[w].line)
       IN  /\ log_queue' = [log_queue EXCEPT ![thr[w].state] = Append(@, Item(msg, w))]
           /\ cache' = [cache EXCEPT ![thr[w].pod] = Trimmed(Append(@, msg))]
           /\ thr' = [thr EXCEPT ![w] =
                         [@ EXCEPT !.pc = "read", !.out = Append(@, msg),
                                   !.fwd = Append(@, thr[w].line),
                                   !.last_timestamp = Stamp(thr[w].line, @)]]
    /\ UNCHANGED <<variant, ALLOWED_NAMESPACES, sessions, nbundles, current_pod,
                   stop_event, stream_thread, nthreads, req, feed, now, clears, reqLeft,
                   cli>>

\* `except ApiException`: log_queue.put(error_msg); redis_client.rpush(cache_key,
\* error_msg); time.sleep(1); `finally: w.stop()`
v2_except(w) ==
    /\ variant = "appv2"
    /\ thr[w].pc = "except"
    /\ log_queue' = [log_queue EXCEPT ![thr[w].state] = Append(@, Item(ERROR_MSG, w))]
    /\ cache' = [cache EXCEPT ![thr[w].pod] = Append(@, ERROR_MSG)]
    /\ thr' = [thr EXCEPT ![w] = [@ EXCEPT !.pc = "loop", !.out = Append(@, ERROR_MSG)]]
    /\ UNCHANGED <<variant, ALLOWED_NAMESPACES, sessions, nbundles, current_pod,
                   stop_event, stream_thread, nthreads, req, feed, now, clears, reqLeft,
                   cli>>

\* after the loop: log_queue.put('__END__'); `current_pod = None` binds a local name
\* of streamer (the function has no `global` statement), and the thread ends
v2_end(w) ==
    /\ variant = "appv2"
    /\ thr[w].pc = "end"
    /\ log_queue' = [log_queue EXCEPT ![thr[w].state] = Append(@, Item(END, w))]
    /\ thr' = [thr EXCEPT ![w] = [@ EXCEPT !.pc = "done", !.out = Append(@, END)]]
    /\ UNCHANGED <<variant, ALLOWED_NAMESPACES, sessions, nbundles, current_pod,
                   stop_event, stream_thread, cache, nthreads, req, feed, now, clears,
                   reqLeft, cli>>

-----------------------------------------------------------------------------
(* app.py: the other entry points that accept a namespace *)

\* the `namespace` argument that is None or empty: all allowed namespaces
AllNs == ""

\* What the cluster returns to a list call: the items, or ApiException (ok is FALSE).
Failed == [ok |-> FALSE, items |-> <<>>]

\* the cluster's answer to v1.list_namespaced_pod(namespace), or to
\* v1.list_pod_for_all_namespaces() for AllNs, when it returns the pods asked for
Honest(namespace) ==
    LET InNs(p) == p.namespace = namespace
    IN  [ok |-> TRUE,
         items |-> IF namespace # AllNs THEN SelectSeq(ClusterList, InNs) ELSE ClusterList]

\* a list_pods that does not filter the all-namespaces listing
list_pods_unfiltered(namespace, answer) ==
    IF namespace # AllNs /\ namespace \notin ALLOWED_NAMESPACES THEN <<>>
    ELSE IF ~answer.ok THEN <<>>
    ELSE [i \in 1..Len(answer.items) |->
             [index |-> i, name |-> answer.items[i].name,
              namespace |-> answer.items[i].namespace]]

\* list_pods(namespace): the result, given the cluster's answer
list_pods(namespace, answer) ==
    IF namespace # AllNs /\ namespace \notin ALLOWED_NAMESPACES THEN <<>>
    ELSE IF ~answer.ok THEN <<>>
    ELSE LET Allowed(p) == p.namespace \in ALLOWED_NAMESPACES
             pods == IF namespace # AllNs THEN answer.items
                     ELSE SelectSeq(answer.items, Allowed)
         IN  [i \in 1..Len(pods) |->
                 [index |-> i, name |-> pods[i].name, namespace |-> pods[i].namespace]]

\* A /namespaces request: the names the cluster lists that are in ALLOWED_NAMESPACES,
\* or the answer 500
get_namespaces(h, answer) ==
    /\ variant = "app"
    /\ req[h].pc = "idle"
    /\ reqLeft > 0
    /\ reqLeft' = reqLeft - 1
    /\ LET r == [NoReq EXCEPT !.kind = "namespaces", !.pod = Pod(AllNs, "None"),
                              !.answer = answer.items]
           Allowed(n) == n \in ALLOWED_NAMESPACES
       IN  req' = [req EXCEPT ![h] =
                      IF ~answer.ok THEN [r EXCEPT !.resp = "500"]
                      ELSE [r EXCEPT !.resp = "200",
                                     !.body = SelectSeq(answer.items, Allowed)]]
    /\ UNCHANGED <<variant, ALLOWED_NAMESPACES, sessions, nbundles, current_pod,
                   log_queue, stop_event, stream_thread, cache, thr, nthreads, feed,
                   now, clears, cli>>

\* A /pods/<namespace> request: the allow-list check, list_pods and the JSON list
get_pods_in_namespace(h, namespace, answer) ==
    /\ variant = "app"
    /\ req[h].pc = "idle"
    /\ reqLeft > 0
    /\ reqLeft' = reqLeft - 1
    /\ LET r == [NoReq EXCEPT !.kind = "pods", !.pod = Pod(namespace, "None")]
           pods == list_pods(namespace, answer)
       IN  req' = [req EXCEPT ![h] =
                      IF namespace \notin ALLOWED_NAMESPACES THEN [r EXCEPT !.resp = "403"]
                      ELSE [r EXCEPT !.resp = "200", !.answer = answer.items,
                                     !.body = [i \in 1..Len(pods) |->
                                                  [name |-> pods[i].name,
                                                   namespace |-> pods[i].namespace]]]]
    /\ UNCHANGED <<variant, ALLOWED_NAMESPACES, sessions, nbundles, current_pod,
                   log_queue, stop_event, stream_thread, cache, thr, nthreads, feed,
                   now, clears, cli>>

\* a caller (the dashboard loop of main) calls list_pods(namespace)
call_list_pods(h, namespace, answer) ==
    /\ variant = "app"
    /\ req[h].pc = "idle"
    /\ reqLeft > 0
    /\ reqLeft' = reqLeft - 1
    /\ req' = [req EXCEPT ![h] =
                  [NoReq EXCEPT !.kind = "list", !.pod = Pod(namespace, "None"),
                                !.answer = answer.items,
                                !.body = list_pods(namespace, answer)]]
    /\ UNCHANGED <<variant, ALLOWED_NAMESPACES, sessions, nbundles, current_pod,
                   log_queue, stop_event, stream_thread, cache, thr, nthreads, feed,
                   now, clears, cli>>

\* a caller calls start_log_streaming(pod_name, namespace, state) with the state
\* bundle of a session
call_start_log_streaming(h, sid, pod) ==
    /\ variant = "app"
    /\ req[h].pc = "idle"
    /\ reqLeft > 0
    /\ sessions[sid] # 0
    /\ reqLeft' = reqLeft - 1
    /\ req' = [req EXCEPT ![h] =
                  [NoReq EXCEPT !.kind = "start", !.sid = sid, !.state = sessions[sid],
                                !.pod = pod, !.pc = "start"]]
    /\ UNCHANGED <<variant, ALLOWED_NAMESPACES, sessions, nbundles, current_pod,
                   log_queue, stop_event, stream_thread, cache, thr, nthreads, feed,
                   now, clears, cli>>

\* main allocates the bundle of 'cli-session' when it is missing and calls
\* stream_pod_logs(pod_name, namespace, state): the allow-list check
stream_pod_logs(h, pod) ==
    /\ variant = "app"
    /\ req[h].pc = "idle"
    /\ reqLeft > 0
    /\ reqLeft' = reqLeft - 1
    /\ LET new == sessions[CLI_SID] = 0
           b == IF new THEN nbundles + 1 ELSE sessions[CLI_SID]
           r == [NoReq EXCEPT !.kind = "cli", !.sid = CLI_SID, !.state = b, !.pod = pod]
       IN  /\ nbundles' = IF new THEN nbundles + 1 ELSE nbundles
           /\ sessions' = [sessions EXCEPT ![CLI_SID] = b]
           /\ req' = [req EXCEPT ![h] =
                         IF pod.namespace \notin ALLOWED_NAMESPACES THEN r
                         ELSE [r EXCEPT !.pc = "stop_set"]]
    /\ UNCHANGED <<variant, ALLOWED_NAMESPACES, current_pod, log_queue, stop_event,
                   stream_thread, cache, thr, nthreads, feed, now, clears>>

\* stream_pod_logs: the input loop ends (the user typed 'q', the worker ended or the
\* stop signal is set); `finally: state['stop_event'].set(); stop_log_streaming(state)`
cli_loop(h) ==
    /\ req[h].pc = "cli_loop"
    /\ req' = [req EXCEPT ![h] = [@ EXCEPT !.pc = "stop_set", !.kind = "cli_end"]]
    /\ UNCHANGED <<variant, ALLOWED_NAMESPACES, sessions, nbundles, current_pod,
                   log_queue, stop_event, stream_thread, cache, thr, nthreads, feed,
                   now, clears, reqLeft, cli>>

-----------------------------------------------------------------------------
(* app.py: main, the startup and the CLI menu loop *)

\* the request record that stands for the main thread in stream_pod_logs
CliH == 2

\* the main thread before main() runs
Boot ==
    [Serving EXCEPT !.pc = "boot", !.flask = FALSE, !.kube = "none"]

\* load_kubeconfig(): False when the file is missing, or when loading it or the test
\* call list_namespace() raises
load_kubeconfig(exists, loads) == exists /\ loads

\* a main that starts the web server thread before it loads the credentials
main_start_flask_first(exists, loads, isatty, initial_namespace) ==
    /\ cli.pc = "boot"
    /\ cli' = IF ~load_kubeconfig(exists, loads)
              THEN [cli EXCEPT !.pc = "exited", !.kube = "failed", !.status = 1,
                               !.flask = TRUE]
              ELSE [cli EXCEPT !.pc = IF isatty THEN "menu" ELSE "serve",
                               !.kube = "ok", !.flask = TRUE,
                               !.current_namespace =
                                   IF initial_namespace \in ALLOWED_NAMESPACES
                                   THEN initial_namespace ELSE AllNs]
    /\ UNCHANGED <<variant, ALLOWED_NAMESPACES, sessions, nbundles, current_pod,
                   log_queue, stop_event, stream_thread, cache, thr, nthreads, req, feed,
                   now, clears, reqLeft>>

\* main(initial_namespace): `if not load_kubeconfig(): sys.exit(1)`, then the web
\* server thread is started, and `if sys.stdin.isatty()` chooses the menu loop
main_start(exists, loads, isatty, initial_namespace) ==
    /\ cli.pc = "boot"
    /\ cli' = IF ~load_kubeconfig(exists, loads)
              THEN [cli EXCEPT !.pc = "exited", !.kube = "failed", !.status = 1]
              ELSE [cli EXCEPT !.pc = IF isatty THEN "menu" ELSE "serve",
                               !.kube = "ok", !.flask = TRUE,
                               !.current_namespace =
                                   IF initial_namespace \in ALLOWED_NAMESPACES
                                   THEN initial_namespace ELSE AllNs]
    /\ UNCHANGED <<variant, ALLOWED_NAMESPACES, sessions, nbundles, current_pod,
                   log_queue, stop_event, stream_thread, cache, thr, nthreads, req, feed,
                   now, clears, reqLeft>>

\* int(choice): the value of a decimal numeral, -1 for ValueError
IntOf(choice) ==
    CASE choice = "0" -> 0
      [] choice = "1" -> 1
      [] choice = "2" -> 2
      [] choice = "3" -> 3
      [] OTHER -> -1

\* `pod_index = int(choice) - 1; if 0 <= pod_index < len(pods)`
ValidIndex(choice, pods) == IntOf(choice) >= 1 /\ IntOf(choice) - 1 < Len(pods)

\* the main thread ends with status 0 (sys.exit(0), or main returns): the interpreter
\* waits for the streamer threads, which are not daemon threads, before it exits
Exit0(m) ==
    IF \E w \in Workers : is_alive(w)
    THEN [m EXCEPT !.pc = "shutdown", !.status = 0]
    ELSE [m EXCEPT !.pc = "exited", !.status = 0]

\* one pass of the menu loop that does not select a pod: pods = list_pods(
\* current_namespace), choice = input().strip().lower() ("EOF": input raises EOFError)
main_menu(choice, answer) ==
    /\ cli.pc = "menu"
    /\ LET pods == list_pods(cli.current_namespace, answer)
           m == [cli EXCEPT !.pods = pods, !.choice = choice,
                            !.before = cli.current_namespace]
       IN  /\ ~(choice \notin {"EOF", "q", "all", ""} /\ ValidIndex(choice, pods))
           /\ cli' = IF choice \in {"EOF", "q"} THEN Exit0(m)
                     ELSE IF choice = "all" THEN [m EXCEPT !.current_namespace = AllNs]
                     ELSE IF choice = "" THEN m
                     ELSE IF choice \in ALLOWED_NAMESPACES
                     THEN [m EXCEPT !.current_namespace = choice]
                     ELSE m
    /\ UNCHANGED <<variant, ALLOWED_NAMESPACES, sessions, nbundles, current_pod,
                   log_queue, stop_event, stream_thread, cache, thr, nthreads, req, feed,
                   now, clears, reqLeft>>

\* one pass of the menu loop with a pod index: the bundle of 'cli-session' and
\* stream_pod_logs(selected_pod["name"], selected_pod["namespace"], _sessions[cli_sid])
main_stream(choice, answer) ==
    /\ cli.pc = "menu"
    /\ LET pods == list_pods(cli.current_namespace, answer)
       IN  /\ choice \notin {"EOF", "q", "all", ""}
           /\ ValidIndex(choice, pods)
           /\ stream_pod_logs(CliH, Pod(pods[IntOf(choice)].namespace,
                                        pods[IntOf(choice)].name))
           /\ cli' = [cli EXCEPT !.pc = "stream", !.pods = pods, !.choice = choice,
                                 !.before = cli.current_namespace]

\* stream_pod_logs has returned: the next pass of the menu loop
main_return ==
    /\ cli.pc = "stream"
    /\ req[CliH].pc = "idle"
    /\ cli' = [cli EXCEPT !.pc = "menu"]
    /\ UNCHANGED <<variant, ALLOWED_NAMESPACES, sessions, nbundles, current_pod,
                   log_queue, stop_event, stream_thread, cache, thr, nthreads, req, feed,
                   now, clears, reqLeft>>

\* the last streamer thread has ended: the process exits
main_shutdown ==
    /\ cli.pc = "shutdown"
    /\ \A w \in Workers : ~is_alive(w)
    /\ cli' = [cli EXCEPT !.pc = "exited"]
    /\ UNCHANGED <<variant, ALLOWED_NAMESPACES, sessions, nbundles, current_pod,
                   log_queue, stop_event, stream_thread, cache, thr, nthreads, req, feed,
                   now, clears, reqLeft>>

-----------------------------------------------------------------------------
(* app.py: the terminal input of stream_pod_logs and of the menu *)

\* the number of calls of stream_pod_logs so far, when only the CLI starts streams
RunNo == MaxRequests - reqLeft

\* a line typed at the terminal: where the main thread was when it was typed
Typed(text) ==
    [text |-> text, run |-> RunNo, at |-> IF cli.pc = "menu" THEN "menu" ELSE "run"]

\* stream_pod_logs: `input_thread = threading.Thread(target=input_reader);
\* input_thread.start()` when start_log_streaming has returned
input_thread_start ==
    /\ cli.pc = "stream"
    /\ req[CliH].pc = "cli_loop"
    /\ cli' = [cli EXCEPT !.pc = "input_loop", !.readers = Append(@, "test")]
    /\ UNCHANGED <<variant, ALLOWED_NAMESPACES, sessions, nbundles, current_pod,
                   log_queue, stop_event, stream_thread, cache, thr, nthreads, req, feed,
                   now, clears, reqLeft>>

\* input_reader: `while not state['stop_event'].is_set()`
input_reader_test(r) ==
    /\ r \in 1..Len(cli.readers)
    /\ cli.readers[r] = "test"
    /\ cli' = [cli EXCEPT !.readers[r] =
                  IF stop_event[sessions[CLI_SID]] THEN "done" ELSE "input"]
    /\ UNCHANGED <<variant, ALLOWED_NAMESPACES, sessions, nbundles, current_pod,
                   log_queue, stop_event, stream_thread, cache, thr, nthreads, req, feed,
                   now, clears, reqLeft>>

\* input_reader: `line = input(); state['input_queue'].put(line.strip().lower())`. The
\* thread is blocked in input() and the terminal hands the typed line to it, wherever
\* the main thread is; "EOF" is the EOFError that ends the thread.
input_reader(r, text) ==
    /\ r \in 1..Len(cli.readers)
    /\ cli.readers[r] = "input"
    /\ cli.pc \notin {"exited", "shutdown"}
    /\ Len(cli.read) < MaxTyped
    /\ cli' = IF text = "EOF" THEN [cli EXCEPT !.readers[r] = "done"]
              ELSE [cli EXCEPT !.readers[r] = "test",
                               !.input_queue = Append(@, Typed(text)),
                               !.read = Append(@, Typed(text))]
    /\ UNCHANGED <<variant, ALLOWED_NAMESPACES, sessions, nbundles, current_pod,
                   log_queue, stop_event, stream_thread, cache, thr, nthreads, req, feed,
                   now, clears, reqLeft>>

\* the condition of the input loop: `state.get('stream_thread') and
\* state['stream_thread'].is_alive() and not state['stop_event'].is_set()`
InputLoopGoesOn ==
    LET b == sessions[CLI_SID]
    IN  stream_thread[b] # 0 /\ is_alive(stream_thread[b]) /\ ~stop_event[b]

\* one pass of the input loop of stream_pod_logs:
\* `user_input = state['input_queue'].get(timeout=0.5); if user_input == 'q': break`,
\* queue.Empty is passed over; when the loop ends, `finally` sets the stop signal and
\* calls stop_log_streaming
input_loop ==
    /\ cli.pc = "input_loop"
    /\ req[CliH].pc = "cli_loop"
    /\ IF ~InputLoopGoesOn
       THEN /\ cli' = [cli EXCEPT !.ended = [why |-> "worker", of |-> RunNo, run |-> RunNo, at |-> "none"]]
            /\ req' = [req EXCEPT ![CliH] = [@ EXCEPT !.pc = "stop_set", !.kind = "cli_end"]]
       ELSE /\ cli.input_queue # <<>>
            /\ LET user_input == Head(cli.input_queue)
               IN  IF user_input.text = "q"
                   THEN /\ cli' = [cli EXCEPT !.input_queue = Tail(@),
                                              !.ended = [why |-> "q", of |-> RunNo,
                                                         run |-> user_input.run,
                                                         at |-> user_input.at]]
                        /\ req' = [req EXCEPT ![CliH] =
                                      [@ EXCEPT !.pc = "stop_set", !.kind = "cli_end"]]
                   ELSE /\ cli' = [cli EXCEPT !.input_queue = Tail(@)]
                        /\ UNCHANGED req
    /\ UNCHANGED <<variant, ALLOWED_NAMESPACES, sessions, nbundles, current_pod,
                   log_queue, stop_event, stream_thread, cache, thr, nthreads, feed,
                   now, clears, reqLeft>>

\* `except KeyboardInterrupt` of stream_pod_logs, then its `finally`
input_loop_interrupt ==
    /\ cli.pc = "input_loop"
    /\ req[CliH].pc = "cli_loop"
    /\ cli' = [cli EXCEPT !.ended = [why |-> "interrupt", of |-> RunNo, run |-> RunNo, at |-> "none"]]
    /\ req' = [req EXCEPT ![CliH] = [@ EXCEPT !.pc = "stop_set", !.kind = "cli_end"]]
    /\ UNCHANGED <<variant, ALLOWED_NAMESPACES, sessions, nbundles, current_pod,
                   log_queue, stop_event, stream_thread, cache, thr, nthreads, feed,
                   now, clears, reqLeft>>

\* `input_thread.join(timeout=1.0)` returns, with the input_reader thread ended or
\* still blocked in input(), and stream_pod_logs returns to the menu loop
input_thread_join ==
    /\ cli.pc = "input_loop"
    /\ req[CliH].pc = "idle"
    /\ cli' = [cli EXCEPT !.pc = "menu"]
    /\ UNCHANGED <<variant, ALLOWED_NAMESPACES, sessions, nbundles, current_pod,
                   log_queue, stop_event, stream_thread, cache, thr, nthreads, req, feed,
                   now, clears, reqLeft>>

-----------------------------------------------------------------------------
(* Specifications *)

\* the handlers H run stop_log_streaming and start_log_streaming
StopStart(H) ==
    \/ \E h \in H : stop_set(h)
    \/ \E h \in H : stop_join(h)
    \/ \E h \in H : join_done(h)
    \/ \E h \in H : join_timeout(h)
    \/ \E h \in H : start_log_streaming(h)
    \/ \E h \in H : clear_queue(h)
    \/ \E h \in H : thread_start(h)

\* select_pod of app.py, served by the handlers H
AppSelect(H) ==
    \/ \E h \in H, sid \in Sids, pod \in ClusterPods : select_pod(h, sid, pod)
    \/ \E h \in H : lrange(h)

\* the first request of a session allocates its state bundle
AppCreate(H) ==
    \/ \E h \in H : select_pod_create(h)
    \/ \E c \in Conns : logs_create(c)

\* select_pod of appv2.py, served by the handlers H
V2Select(H) ==
    \/ \E h \in H, pod \in ClusterPods : select_pod_v2(h, pod)
    \/ \E h \in H : select_clear(h)

AppWorker ==
    \/ \E w \in Workers : read_line(w)
    \/ \E w \in Workers : read_close(w)
    \/ \E w \in Workers : read_error(w)
    \/ \E w \in Workers : check_stop(w)
    \/ \E w \in Workers : put_line(w)
    \/ \E w \in Workers : except_put(w)
    \/ \E w \in Workers : finally_put(w)

V2Worker ==
    \/ \E w \in Workers : v2_loop(w)
    \/ \E w \in Workers : v2_read_line(w)
    \/ \E w \in Workers : v2_read_close(w)
    \/ \E w \in Workers : v2_read_error(w)
    \/ \E w \in Workers : v2_check_stop(w)
    \/ \E w \in Workers : v2_put_line(w)
    \/ \E w \in Workers : v2_except(w)
    \/ \E w \in Workers : v2_end(w)

AppFeed ==
    \/ \E c \in Conns, sid \in Sids : logs(c, sid)
    \/ \E c \in Conns : generate(c)

\* app.py serving one web session: one select_pod request at a time, the workers it
\* starts and one /logs connection
Next == AppSelect({1}) \/ AppCreate({1}) \/ StopStart({1}) \/ AppWorker \/ AppFeed

Spec == InitApp /\ [][Next]_vars

\* app.py with two select_pod requests of one session running concurrently
NextCtl ==
    \/ AppSelect(Handlers) \/ \E h \in Handlers : select_pod_create(h)
    \/ StopStart(Handlers) \/ AppWorker

SpecCtl == InitApp /\ [][NextCtl]_vars

\* both programs, one select_pod request at a time
NextBoth ==
    \/ AppSelect({1}) \/ select_pod_create(1)
    \/ V2Select({1}) \/ StopStart({1}) \/ AppWorker \/ V2Worker

SpecBoth == (InitApp \/ InitV2) /\ [][NextBoth]_vars

\* The state of app.py when select_pod of session s1 for pod kavosh/p1 has returned
\* and the worker has not read a line yet.
Streaming(pod) ==
    /\ sessions = [s \in AllSids |-> IF s = "s1" THEN 1 ELSE 0]
    /\ nbundles = 1
    /\ current_pod = [b \in Bundles |-> IF b = 1 THEN pod ELSE None]
    /\ log_queue = [b \in Bundles |-> <<>>]
    /\ stop_event = [b \in Bundles |-> FALSE]
    /\ stream_thread = [b \in Bundles |-> IF b = 1 THEN 1 ELSE 0]
    /\ thr = [w \in Workers |->
                 IF w = 1
                 THEN [NoThread EXCEPT !.pc = "read", !.state = 1, !.pod = pod, !.ep = 1]
                 ELSE NoThread]
    /\ nthreads = 1
    /\ req = [h \in Handlers |->
                 IF h = 1
                 THEN [NoReq EXCEPT !.sid = "s1", !.state = 1, !.pod = pod,
                                    !.resp = "OK", !.ep = 1, !.tr = <<"clear", "start">>]
                 ELSE NoReq]
    /\ feed = [c \in Conns |-> NoFeed]
    /\ now = 0
    /\ clears = [b \in Bundles |-> IF b = 1 THEN <<pod>> ELSE <<>>]

InitFeed ==
    /\ variant = "app"
    /\ cli = Serving
    /\ ALLOWED_NAMESPACES = {"kavosh", "secure", "bizagi"}
    /\ reqLeft = 0
    /\ cache = [k \in Keys |-> <<>>]
    /\ Streaming(Pod("kavosh", "p1"))

\* app.py: one /logs connection on a session that streams a pod, and the clock
NextFeed == AppWorker \/ AppFeed \/ Tick

SpecFeed == InitFeed /\ [][NextFeed]_vars

\* two /logs connections (two tabs of one browser)
Conns2 == {1, 2}

\* app.py when select_pod of session s1 for the pod kavosh/p1 has returned, with two
\* /logs connections to come
InitFeed2 ==
    /\ variant = "app"
    /\ cli = Serving
    /\ ALLOWED_NAMESPACES = {"kavosh", "secure", "bizagi"}
    /\ reqLeft = 0
    /\ cache = [k \in Keys |-> <<>>]
    /\ sessions = [s \in AllSids |-> IF s = "s1" THEN 1 ELSE 0]
    /\ nbundles = 1
    /\ current_pod = [b \in Bundles |-> IF b = 1 THEN Pod("kavosh", "p1") ELSE None]
    /\ log_queue = [b \in Bundles |-> <<>>]
    /\ stop_event = [b \in Bundles |-> FALSE]
    /\ stream_thread = [b \in Bundles |-> IF b = 1 THEN 1 ELSE 0]
    /\ thr = [w \in Workers |->
                 IF w = 1
                 THEN [NoThread EXCEPT !.pc = "read", !.state = 1,
                                       !.pod = Pod("kavosh", "p1"), !.ep = 1]
                 ELSE NoThread]
    /\ nthreads = 1
    /\ req = [h \in Handlers |->
                 IF h = 1
                 THEN [NoReq EXCEPT !.sid = "s1", !.state = 1, !.pod = Pod("kavosh", "p1"),
                                    !.resp = "OK", !.ep = 1, !.tr = <<"clear", "start">>]
                 ELSE NoReq]
    /\ feed = [c \in Conns2 |-> NoFeed]
    /\ now = 0
    /\ clears = [b \in Bundles |-> IF b = 1 THEN <<Pod("kavosh", "p1")>> ELSE <<>>]

\* app.py: the worker and two /logs connections of the session
NextFeed2 ==
    \/ AppWorker
    \/ \E c \in Conns2 : logs(c, "s1")
    \/ \E c \in Conns2 : generate(c)

SpecFeed2 == InitFeed2 /\ [][NextFeed2]_vars

\* the decimal digits of n, one piece each
Digit == <<"0", "1", "2", "3", "4", "5", "6", "7", "8", "9">>

RECURSIVE Digits(_)
Digits(n) ==
    IF n < 10 THEN <<Digit[n + 1]>>
    ELSE Append(Digits(n \div 10), Digit[(n % 10) + 1])

\* the i-th line a worker has streamed earlier: a line without a timestamp
OldLine(i) == <<"old">> \o Digits(i)

\* The state of either program when the worker of a selected pod has streamed so many
\* lines that one more fills the pod's cache list; the histories start here.
InitCache ==
    /\ variant \in {"app", "appv2"}
    /\ cli = Serving
    /\ ALLOWED_NAMESPACES = {"kavosh", "secure", "bizagi"}
    /\ reqLeft = MaxCalls
    /\ cache = [k \in Keys |->
                   IF k = Pod("kavosh", "p1") THEN [i \in 1..(MAX_CACHE - 1) |-> OldLine(i)]
                   ELSE <<>>]
    /\ sessions = [s \in AllSids |-> IF variant = "app" /\ s = "s1" THEN 1 ELSE 0]
    /\ nbundles = 1
    /\ current_pod = [b \in Bundles |-> IF b = 1 THEN Pod("kavosh", "p1") ELSE None]
    /\ log_queue = [b \in Bundles |-> <<>>]
    /\ stop_event = [b \in Bundles |-> FALSE]
    /\ stream_thread = [b \in Bundles |-> IF b = 1 THEN 1 ELSE 0]
    /\ thr = [w \in Workers |->
                 IF w = 1
                 THEN [NoThread EXCEPT !.pc = "read", !.state = 1,
                                       !.pod = Pod("kavosh", "p1"), !.ep = 1,
                                       !.conn = IF variant = "app" THEN 0 ELSE 1,
                                       !.kw = IF variant = "app" THEN @ ELSE Kwargs(<<>>)]
                 ELSE NoThread]
    /\ nthreads = 1
    /\ req = [h \in Handlers |-> NoReq]
    /\ feed = [c \in Conns |-> NoFeed]
    /\ now = 0
    /\ clears = [b \in Bundles |-> IF b = 1 THEN <<Pod("kavosh", "p1")>> ELSE <<>>]

\* either program: the worker goes on, and one more pod selection
NextCache ==
    AppSelect({1}) \/ V2Select({1}) \/ StopStart({1}) \/ AppWorker \/ V2Worker

SpecCache == InitCache /\ [][NextCache]_vars

\* app.py in the state of InitCache: the worker goes on, and one more pod selection
InitFifo == InitCache /\ variant = "app"

NextFifo == AppSelect({1}) \/ StopStart({1}) \/ AppWorker

SpecFifo == InitFifo /\ [][NextFifo]_vars

\* the namespaces and pods a caller may name: ns1 is not in the allow-list
EntryNamespaces == {"kavosh", "ns1"}

\* app.py while session s1 streams kavosh/p1; the cache lists of the pods of ns1 are
\* left from an earlier run whose allow-list had ns1
InitEntry ==
    /\ variant = "app"
    /\ cli = Serving
    /\ ALLOWED_NAMESPACES = {"kavosh", "secure", "bizagi"}
    /\ reqLeft = MaxCalls
    /\ cache = [k \in Keys |-> IF k.namespace = "ns1" THEN PodLog(k) ELSE <<>>]
    /\ Streaming(Pod("kavosh", "p1"))

\* app.py: every entry point that accepts a namespace, called one after the other
AppEntry(H) ==
    \/ \E h \in H, ns \in EntryNamespaces :
           \E answer \in {Honest(ns), Failed} : get_pods_in_namespace(h, ns, answer)
    \/ \E h \in H, ns \in EntryNamespaces \cup {AllNs} :
           \E answer \in {Honest(ns), Failed} : call_list_pods(h, ns, answer)
    \/ \E h \in H, sid \in Sids, pod \in ClusterPods : call_start_log_streaming(h, sid, pod)
    \/ \E h \in H, pod \in ClusterPods : stream_pod_logs(h, pod) /\ UNCHANGED cli
    \/ \E h \in H : cli_loop(h)

NextEntry == AppEntry({1}) \/ AppSelect({1}) \/ StopStart({1}) \/ AppWorker

SpecEntry == InitEntry /\ [][NextEntry]_vars

\* the end-to-end scenario: app.py started with ALLOWED_NAMESPACES=ns1
InitE2E ==
    /\ variant = "app"
    /\ cli = Serving
    /\ ALLOWED_NAMESPACES = {"ns1"}
    /\ reqLeft = MaxRequests
    /\ InitCommon

SpecE2E == InitE2E /\ [][Next]_vars

\* app.py with two browsers: session s1 streams kavosh/p1 when the next requests come
InitIso ==
    /\ variant = "app"
    /\ cli = Serving
    /\ ALLOWED_NAMESPACES = {"kavosh", "secure", "bizagi"}
    /\ reqLeft = MaxCalls
    /\ cache = [k \in Keys |-> <<>>]
    /\ Streaming(Pod("kavosh", "p1"))

\* select_pod and /logs of either session
IsoRequests ==
    \/ \E sid \in WebSids, pod \in ClusterPods : select_pod(1, sid, pod)
    \/ lrange(1)
    \/ \E c \in Conns, sid \in WebSids : logs(c, sid)
    \/ \E c \in Conns : generate(c)

NextIso == IsoRequests \/ AppCreate({1}) \/ StopStart({1}) \/ AppWorker

SpecIso == InitIso /\ [][NextIso]_vars

\* the sequences of at most n elements of S
RECURSIVE SeqsUpTo(_, _)
SeqsUpTo(S, n) ==
    IF n = 0 THEN {<<>>}
    ELSE LET shorter == SeqsUpTo(S, n - 1)
         IN  shorter \cup {Append(q, x) : q \in shorter, x \in S}

\* the namespaces the cluster may name
ClusterNamespaces == {"kavosh", "ns1", "kube-system"}

\* any answer of the cluster to a pod list call, to a namespace list call
PodAnswers == {Failed} \cup {[ok |-> TRUE, items |-> q] : q \in SeqsUpTo(ClusterPods, MaxItems)}
NamespaceAnswers ==
    {Failed} \cup {[ok |-> TRUE, items |-> q] : q \in SeqsUpTo(ClusterNamespaces, MaxItems)}

\* app.py: the listing endpoints and list_pods against a cluster that may return
\* anything
NextList ==
    \/ \E h \in Handlers, answer \in NamespaceAnswers : get_namespaces(h, answer)
    \/ \E h \in Handlers, ns \in EntryNamespaces, answer \in PodAnswers :
           get_pods_in_namespace(h, ns, answer)
    \/ \E h \in Handlers, ns \in EntryNamespaces \cup {AllNs}, answer \in PodAnswers :
           call_list_pods(h, ns, answer)

SpecList == InitApp /\ [][NextList]_vars

\* app.py from the start of the process
InitMain ==
    /\ variant = "app"
    /\ cli = Boot
    /\ ALLOWED_NAMESPACES = {"kavosh", "secure", "bizagi"}
    /\ reqLeft = MaxCalls
    /\ InitCommon

\* what is typed at the menu prompt
Choices == {"q", "all", "", "1", "3", "kavosh", "ns1", "EOF"}

\* the main thread
Main ==
    \/ \E exists, loads, isatty \in BOOLEAN, ns \in {"bizagi", "kavosh", "ns1"} :
           main_start(exists, loads, isatty, ns)
    \/ \E choice \in Choices :
           \E answer \in {Honest(cli.current_namespace), Failed} : main_menu(choice, answer)
    \/ \E choice \in Choices :
           \E answer \in {Honest(cli.current_namespace), Failed} : main_stream(choice, answer)
    \/ main_return
    \/ main_shutdown

\* the threads of the process run until it exits; requests are served once the web
\* server thread is started
NextMain ==
    \/ Main
    \/ /\ cli.pc # "exited" /\ cli.flask
       /\ \/ \E sid \in Sids, pod \in ClusterPods : select_pod(1, sid, pod)
          \/ select_pod_create(1)
          \/ lrange(1)
    \/ /\ cli.pc # "exited"
       /\ StopStart(Handlers) \/ cli_loop(CliH) \/ AppWorker

SpecMain == InitMain /\ [][NextMain]_vars

\* app.py at the menu prompt of an interactive terminal, with the filter "kavosh"
InitTty ==
    /\ variant = "app"
    /\ cli = [Serving EXCEPT !.pc = "menu", !.current_namespace = "kavosh"]
    /\ ALLOWED_NAMESPACES = {"kavosh", "secure", "bizagi"}
    /\ reqLeft = MaxRequests
    /\ InitCommon

\* what is typed at the terminal
Lines == {"q", "1"}

\* the streamer workers of a pod that writes no line during the runs: the upstream
\* read closes or fails
QuietWorker ==
    \/ \E w \in Workers : read_close(w)
    \/ \E w \in Workers : read_error(w)
    \/ \E w \in Workers : except_put(w)
    \/ \E w \in Workers : finally_put(w)

\* the main thread in the menu loop and in stream_pod_logs, the input_reader threads
\* and the streamer workers; a typed line goes to one of the threads that are in
\* input()
NextTty ==
    \/ \E choice \in Lines : main_menu(choice, Honest(cli.current_namespace))
    \/ \E choice \in Lines : main_stream(choice, Honest(cli.current_namespace))
    \/ main_shutdown
    \/ StopStart({CliH})
    \/ input_thread_start
    \/ \E r \in 1..MaxRequests : input_reader_test(r)
    \/ \E r \in 1..MaxRequests, text \in Lines : input_reader(r, text)
    \/ input_loop
    \/ input_loop_interrupt
    \/ input_thread_join
    \/ QuietWorker

SpecTty == InitTty /\ [][NextTty]_vars

\* app.py while session s1 streams kavosh/p1: one more call that stops the stream,
\* by select_pod or by stream_pod_logs; the cache list of kavosh/p2 is left from an
\* earlier run
InitStop ==
    /\ variant = "app"
    /\ cli = Serving
    /\ ALLOWED_NAMESPACES = {"kavosh", "secure", "bizagi"}
    /\ reqLeft = MaxCalls
    /\ cache = [k \in Keys |-> IF k = Pod("kavosh", "p2") THEN PodLog(k) ELSE <<>>]
    /\ Streaming(Pod("kavosh", "p1"))

\* the steps of the thread that calls stop_log_streaming
Caller ==
    \/ StopStart({1})
    \/ lrange(1)
    \/ cli_loop(1)

NextStop ==
    \/ \E sid \in Sids, pod \in ClusterPods : select_pod(1, sid, pod)
    \/ \E pod \in ClusterPods : stream_pod_logs(1, pod) /\ UNCHANGED cli
    \/ Caller
    \/ AppWorker

SpecStop == InitStop /\ [][NextStop]_vars

\* The calling thread is scheduled and join(timeout=2.0) returns after 2 seconds at the
\* latest; nothing is assumed of the workers, which may stay blocked in the upstream
\* read for ever.
SpecStopFair == SpecStop /\ WF_vars(Caller)

\* appv2.py when stream_pod_logs for the pod kavosh/raw, called from the menu, has
\* started the worker and waits in its input loop; the worker has not opened the
\* upstream follow yet
InitV2W ==
    /\ variant = "appv2"
    /\ cli = Serving
    /\ ALLOWED_NAMESPACES = {"kavosh", "secure", "bizagi"}
    /\ reqLeft = 0
    /\ sessions = [s \in AllSids |-> 0]
    /\ nbundles = 1
    /\ current_pod = [b \in Bundles |-> IF b = 1 THEN RawPod ELSE None]
    /\ log_queue = [b \in Bundles |-> <<>>]
    /\ stop_event = [b \in Bundles |-> FALSE]
    /\ stream_thread = [b \in Bundles |-> IF b = 1 THEN 1 ELSE 0]
    /\ cache = [k \in Keys |-> <<>>]
    /\ thr = [w \in Workers |->
                 IF w = 1
                 THEN [NoThread EXCEPT !.pc = "loop", !.state = 1, !.pod = RawPod, !.ep = 1]
                 ELSE NoThread]
    /\ nthreads = 1
    /\ req = [h \in Handlers |->
                 IF h = 1
                 THEN [NoReq EXCEPT !.kind = "cli", !.pc = "cli_loop", !.state = 1,
                                    !.pod = RawPod]
                 ELSE NoReq]
    /\ feed = [c \in Conns |-> NoFeed]
    /\ now = 0
    /\ clears = [b \in Bundles |-> IF b = 1 THEN <<RawPod>> ELSE <<>>]

\* appv2.py: the retrying worker, and the end of stream_pod_logs with its
\* stop_log_streaming
NextV2W ==
    \/ cli_loop(1)
    \/ stop_set(1)
    \/ stop_join(1)
    \/ join_done(1)
    \/ join_timeout(1)
    \/ V2Worker

SpecV2W == InitV2W /\ [][NextV2W]_vars

-----------------------------------------------------------------------------
(* Claims *)

Born(w) == thr[w].pc # "unborn"
Done(w) == thr[w].pc = "done"
Count(seq, x) == Cardinality({i \in 1..Len(seq) : seq[i] = x})
Front(seq) == SubSeq(seq, 1, Len(seq) - 1)

\* C1: single-flight: in every reachable state at most one streamer worker of a
\* session's state bundle is alive.
C1_SingleFlight ==
    \A b \in Bundles : Cardinality({w \in Workers : is_alive(w) /\ thr[w].state = b}) <= 1

\* C2 as stated: a worker that ended by the stop signal or the upstream close, with no
\* start_log_streaming in between, has put exactly the lines the upstream yielded
\* before the stop signal, in order, then one '__END__'.
C2_AllLinesBeforeStop ==
    \A w \in Workers :
        (variant = "app" /\ Done(w) /\ thr[w].why \in {"stop", "close"} /\ ~thr[w].cleared)
            => thr[w].out = thr[w].pre \o <<END>>

\* C2 as amended: the lines are put in arrival order, none twice, then one '__END__';
\* only the last line yielded before the stop signal may be missing (the signal was
\* raised between its arrival and the worker's check), and none is missing when the
\* worker ended by the upstream close.
C2_LinesThenEnd ==
    \A w \in Workers :
        (variant = "app" /\ Done(w) /\ thr[w].why \in {"stop", "close"} /\ ~thr[w].cleared)
            => /\ \/ thr[w].out = thr[w].pre \o <<END>>
                  \/ thr[w].pre # <<>> /\ thr[w].out = Front(thr[w].pre) \o <<END>>
               /\ thr[w].why = "close" => thr[w].out = thr[w].pre \o <<END>>

\* a worker was stopped after the upstream yielded two lines; it has put the first,
\* then '__END__'
C2_Witness ==
    \E w \in Workers :
        /\ variant = "app" /\ Done(w) /\ thr[w].why = "stop" /\ ~thr[w].cleared
        /\ Len(thr[w].pre) = 2
        /\ thr[w].out = <<thr[w].pre[1], END>>

\* C3: no /logs consumer is delivered a line, or the '__END__', of the worker of a
\* pod A after the queue clear of a later select of another pod B.
C3_NoStaleDelivery == \A c \in Conns : ~feed[c].ev.stale

\* C4: in every select_pod the queue clear comes before the warm-start push, and no
\* queue clear comes between the push and the start of the worker.
C4_ClearBeforeWarm ==
    \A h \in Handlers :
        req[h].tr \in {<<>>, <<"clear">>, <<"clear", "warm">>, <<"clear", "start">>,
                      <<"clear", "warm", "start">>}

\* C9: a worker is started only when every earlier worker of the bundle has left its
\* read loop, and stop_event.clear() never erases a stop signal that a worker in its
\* read loop has not observed.
C9_StopObservedBeforeStart ==
    /\ \A w1, w2 \in Workers :
          (w1 < w2 /\ Born(w2) /\ thr[w1].state = thr[w2].state) => ~InLoop(w1)
    /\ \A w \in Workers : ~thr[w].erased

\* C10: a worker appends '__END__' at most once, and nothing after it.
C10_EndOnceAndLast ==
    \A w \in Workers :
        /\ Count(thr[w].out, END) <= 1
        /\ Count(thr[w].out, END) = 1 => thr[w].out[Len(thr[w].out)] = END
        /\ Done(w) => Count(thr[w].out, END) = 1

\* a retrying worker has ended after an upstream error: the error line, then '__END__'
C10_Witness ==
    \E w \in Workers :
        /\ variant = "appv2" /\ Done(w)
        /\ Count(thr[w].out, ERROR_MSG) >= 1
        /\ thr[w].out[Len(thr[w].out)] = END

\* the initial state of SpecFeed is a state app.py reaches from its start
ReachesStreaming == ~(reqLeft = 1 /\ cache = [k \in Keys |-> <<>>] /\ Streaming(Pod("kavosh", "p1")))

\* C7: while the pod stays selected, an idle period of a /logs connection has exactly
\* one 'Waiting for logs...' event, then only heartbeats, with more than 10 time units
\* between consecutive emissions; a log event resets the waiting flag.
C7_OneWaitingThenHeartbeats ==
    \A c \in Conns :
        LET f == feed[c] IN
        (variant = "app" /\ ~f.nopod) =>
            /\ f.empty => Len(f.idle) >= 1
            /\ f.idle # <<>> => f.idle[1].kind = "waiting"
            /\ \A i \in 2..Len(f.idle) : f.idle[i].kind = "heartbeat"
            /\ \A i \in 1..(Len(f.idle) - 1) : f.idle[i + 1].t - f.idle[i].t > HEARTBEAT
            /\ f.has_yielded_waiting <=> f.idle # <<>>

\* after a log event the connection has emitted a second waiting event and, more than
\* 10 time units later, a heartbeat
C7_Witness ==
    \E c \in Conns :
        /\ variant = "app" /\ ~feed[c].nopod
        /\ feed[c].got # <<>>
        /\ feed[c].nwait = 2
        /\ Len(feed[c].idle) = 2
        /\ feed[c].idle[2].kind = "heartbeat"

\* C5: the cache list of every key holds at most 1000 entries in every state.
C5_CacheAtMost1000 == \A k \in Keys : Len(cache[k]) <= MAX_CACHE

\* the handler h is past the allow-list check of its entry point
Admitted(h) ==
    req[h].pc \in {"stop_set", "stop_join", "joining", "lrange", "clear_queue",
                   "thread_start", "cli_loop"}

\* C6: in app.py a namespace outside ALLOWED_NAMESPACES is rejected by select_pod,
\* get_pods_in_namespace, list_pods, start_log_streaming and stream_pod_logs: the web
\* endpoints answer 403, no handler gets past the check, no worker runs for such a
\* namespace, no pod of it is listed and its cache lists stay as they were.
C6_AllowListEverywhere ==
    variant = "app" =>
        /\ \A h \in Handlers :
              /\ Admitted(h) => req[h].pod.namespace \in ALLOWED_NAMESPACES
              /\ \A i \in 1..Len(req[h].body) :
                     req[h].body[i].namespace \in ALLOWED_NAMESPACES
              /\ (req[h].pod.namespace \notin ALLOWED_NAMESPACES \cup {AllNs, "None"}
                  /\ req[h].pc = "idle")
                    => /\ req[h].body = <<>>
                       /\ req[h].kind \in {"select", "pods"} => req[h].resp = "403"
                       /\ req[h].tr = <<>>
        /\ \A w \in Workers : Born(w) => thr[w].pod.namespace \in ALLOWED_NAMESPACES
        /\ \A b \in Bundles :
              current_pod[b] # None => current_pod[b].namespace \in ALLOWED_NAMESPACES
        /\ \A k \in Keys : k.namespace \notin ALLOWED_NAMESPACES => cache[k] = PodLog(k)

\* /select_pod/ns1/p1 was answered 403 while the worker of kavosh/p1 goes on undisturbed
C6_Witness ==
    \E h \in Handlers, w \in Workers :
        /\ variant = "app"
        /\ req[h].kind = "select" /\ req[h].pc = "idle" /\ req[h].resp = "403"
        /\ req[h].pod = Pod("ns1", "p1")
        /\ is_alive(w) /\ thr[w].pod = Pod("kavosh", "p1") /\ ~stop_event[thr[w].state]
        /\ cache[Pod("ns1", "p1")] # <<>>

\* C8: with allow-list ["ns1"], after the one select of ("ns1","p1"), when the upstream
\* yielded the line "2024-01-01T00:00:00Z hello" and closed, a consumer that got the
\* worker's '__END__' was delivered one log event with message "hello" before it, and
\* the cache list of ("ns1","p1") is the raw line.
C8_EndToEnd ==
    \A c \in Conns, w \in Workers :
        (/\ ALLOWED_NAMESPACES = {"ns1"} /\ nthreads = 1
         /\ Done(w) /\ thr[w].why = "close"
         /\ thr[w].pod = Pod("ns1", "p1") /\ thr[w].pre = PodLog(Pod("ns1", "p1"))
         /\ feed[c].ev.kind = "ended" /\ feed[c].ev.by = w)
            => /\ feed[c].got = << <<"hello">> >>
               /\ cache[Pod("ns1", "p1")] = << <<"2024-01-01T00:00:00Z", " ", "hello">> >>

\* C11: all calls of _get_or_create_state with one session id return the same state
\* bundle, the bundle the registry holds for the id: any two requests of a session
\* (select_pod or /logs) that have their bundle have the same one.
C11_OneBundlePerSession ==
    \A h \in Handlers, c \in Conns :
        (req[h].state # 0 /\ feed[c].state # 0 /\ req[h].sid = feed[c].sid)
            => /\ req[h].state = feed[c].state
               /\ req[h].state = sessions[req[h].sid]

\* the session ids of those that hold bundle b: the registry, the select_pod
\* requests and the /logs connections
Holders(b) ==
    {sid \in AllSids : sessions[sid] = b}
        \cup {req[h].sid : h \in {x \in Handlers : req[x].state = b}}
        \cup {feed[c].sid : c \in {x \in Conns : feed[x].state = b}}

\* the bundles of the requests, workers and connections that take this step
Acting ==
    {req[h].state' : h \in {x \in Handlers : req[x]' # req[x]}}
        \cup {thr[w].state' : w \in {x \in Workers : thr[x]' # thr[x]}}
        \cup {feed[c].state' : c \in {x \in Conns : feed[x]' # feed[x]}}

\* the bundles this step changes
Touched ==
    {b \in Bundles : \/ current_pod[b]' # current_pod[b]
                     \/ log_queue[b]' # log_queue[b]
                     \/ stop_event[b]' # stop_event[b]
                     \/ stream_thread[b]' # stream_thread[b]}

\* C12: in app.py no bundle (queue, stop event, worker handle, current pod) is held
\* under two session ids, and every step of a request, worker or /logs connection of
\* one session changes the bundle of that session only.
C12_SessionIsolation ==
    /\ [](\A b \in Bundles : Cardinality(Holders(b)) <= 1)
    /\ [][Cardinality(Acting) <= 1 /\ Touched \subseteq Acting]_vars

\* session s2 has raised its stop signal while the worker of session s1 streams on,
\* its stop signal clear
C12_Witness ==
    /\ sessions["s1"] # 0 /\ sessions["s2"] # 0 /\ sessions["s1"] # sessions["s2"]
    /\ stop_event[sessions["s2"]] /\ ~stop_event[sessions["s1"]]
    /\ \E w \in Workers : InLoop(w) /\ thr[w].state = sessions["s1"]

\* the session of bundle b has an active worker: its handle names a live thread
ActiveWorker(b) == stream_thread[b] # 0 /\ is_alive(stream_thread[b])

\* C13: stop_log_streaming on a session that has no active worker changes nothing:
\* the step of it that runs state['stop_event'].set() leaves the session's stop
\* signal, queue, current pod and worker handle as they were.
C13_StopWithoutWorkerIsNoOp ==
    [][\A h \in Handlers :
          (/\ req[h].pc = "stop_set" /\ req[h]'.pc = "stop_join"
           /\ ~ActiveWorker(req[h].state))
              => /\ stop_event[req[h].state]' = stop_event[req[h].state]
                 /\ log_queue[req[h].state]' = log_queue[req[h].state]
                 /\ current_pod[req[h].state]' = current_pod[req[h].state]
                 /\ stream_thread[req[h].state]' = stream_thread[req[h].state]]_vars

\* C14: when stop_log_streaming has returned to select_pod, the stop signal of the
\* session is set and its worker handle is None, whether the worker ended within the
\* join, had ended by itself before, or outlived the join.
C14_StoppedAndNoHandle ==
    \A h \in Handlers :
        req[h].pc \in {"lrange", "select_clear"}
            => stop_event[req[h].state] /\ stream_thread[req[h].state] = 0

\* the positions of the items of worker w among the items a connection dequeued
ByWorker(items, w) == {i \in 1..Len(items) : items[i].by = w}

\* the lines of the select_pod cache pushes among the first n items dequeued
WarmLines(items, n) ==
    LET IsWarm(x) == x.by = 0
        warm == SelectSeq(SubSeq(items, 1, n), IsWarm)
    IN  [i \in 1..Len(warm) |-> warm[i].line]

\* C15: when select_pod found the cache list c1..ck (k >= 1) and its worker runs, a
\* consumer of the session that is delivered a line of that worker was delivered
\* c1..ck, in order, before it.
C15_WarmStartDelivered ==
    \A c \in Conns, h \in Handlers, w \in Workers :
        (/\ variant = "app" /\ req[h].cached_logs # <<>>
         /\ req[h].pc = "idle" /\ req[h].resp = "OK"
         /\ Born(w) /\ thr[w].state = req[h].state /\ thr[w].ep = req[h].ep
         /\ feed[c].state = req[h].state
         /\ ByWorker(feed[c].deq, w) # {})
            => LET live == ByWorker(feed[c].deq, w)
                   first == CHOOSE i \in live : \A j \in live : i <= j
                   warm == WarmLines(feed[c].deq, first - 1)
                   k == Len(req[h].cached_logs)
               IN  /\ Len(warm) >= k
                   /\ SubSeq(warm, Len(warm) - k + 1, Len(warm)) = req[h].cached_logs

\* the position of item x in the sequence of the items a worker has put; 0 when it
\* has not put it
PutAt(w, x) ==
    LET at == {i \in 1..Len(thr[w].out) : thr[w].out[i] = x}
    IN  IF at = {} THEN 0 ELSE CHOOSE i \in at : TRUE

\* C16: the log events a /logs connection of app.py emits are the lines it dequeued,
\* in that order and each once; the items of one worker are emitted in the order the
\* worker put them, none twice; waiting and heartbeat events change none of it.
C16_LogEventsAreDequeuedLines ==
    \A c \in Conns :
        variant = "app" =>
            /\ feed[c].got = [i \in 1..Len(feed[c].deq) |-> feed[c].deq[i].line]
            /\ \A i \in 1..Len(feed[c].got) : feed[c].got[i] # END
            /\ \A w \in Workers :
                  \A i, j \in ByWorker(feed[c].deq, w) :
                      /\ PutAt(w, feed[c].deq[i].line) > 0
                      /\ i < j => PutAt(w, feed[c].deq[i].line) < PutAt(w, feed[c].deq[j].line)

\* a connection has emitted two log events of one worker, and a waiting event
C16_Witness ==
    \E c \in Conns, w \in Workers :
        /\ variant = "app"
        /\ Cardinality(ByWorker(feed[c].deq, w)) = 2
        /\ feed[c].nwait >= 1

\* the namespaces of the entries of a pod list
ListedNamespaces(body) == {body[i].namespace : i \in 1..Len(body)}

\* C17 as stated: every name of the namespace listing and the namespace of every pod
\* of list_pods and get_pods_in_namespace is in ALLOWED_NAMESPACES, whatever the
\* cluster returns.
C17_OnlyAllowedListed ==
    \A h \in Handlers :
        /\ req[h].kind = "namespaces"
              => \A i \in 1..Len(req[h].body) : req[h].body[i] \in ALLOWED_NAMESPACES
        /\ req[h].kind \in {"pods", "list"}
              => ListedNamespaces(req[h].body) \subseteq ALLOWED_NAMESPACES

\* C17 as amended: whatever the cluster returns, the namespace listing and the
\* all-namespaces pod listing hold allow-listed names only and are what the cluster
\* returned, filtered; a listing for a given namespace is empty unless the namespace
\* is allow-listed, and is then the cluster's answer as it came.
C17_ListingsFiltered ==
    \A h \in Handlers :
        /\ req[h].kind = "namespaces"
              => /\ \A i \in 1..Len(req[h].body) : req[h].body[i] \in ALLOWED_NAMESPACES
                 /\ {req[h].body[i] : i \in 1..Len(req[h].body)}
                       = {req[h].answer[i] : i \in 1..Len(req[h].answer)}
                             \cap ALLOWED_NAMESPACES
        /\ (req[h].kind \in {"pods", "list"} /\ req[h].pod.namespace = AllNs)
              => /\ ListedNamespaces(req[h].body) \subseteq ALLOWED_NAMESPACES
                 /\ ListedNamespaces(req[h].body)
                       = ListedNamespaces(req[h].answer) \cap ALLOWED_NAMESPACES
        /\ (req[h].kind \in {"pods", "list"} /\ req[h].pod.namespace # AllNs)
              => /\ req[h].body # <<>> => req[h].pod.namespace \in ALLOWED_NAMESPACES
                 /\ req[h].body # <<>> => Len(req[h].body) = Len(req[h].answer)
                 /\ \A i \in 1..Len(req[h].body) :
                        req[h].body[i].namespace = req[h].answer[i].namespace

\* the all-namespaces listing has left out a pod of ns1 that the cluster returned
C17_Witness ==
    \E h \in Handlers :
        /\ req[h].kind = "list" /\ req[h].pod.namespace = AllNs
        /\ "ns1" \in ListedNamespaces(req[h].answer)
        /\ req[h].body # <<>>
        /\ "ns1" \notin ListedNamespaces(req[h].body)

\* C18: at every menu prompt of app.py, 'q' exits the process with status 0, 'all'
\* clears the namespace filter, a 1-based index within the listed pods starts
\* streaming that pod on the CLI session, and any other non-empty input becomes the
\* filter only if it is allow-listed (otherwise the filter is unchanged), with control
\* back at the menu
C18_MenuInputs ==
    /\ cli.choice = "q" => cli.pc = "exited" /\ cli.status = 0
    /\ cli.choice = "all" => cli.pc = "menu" /\ cli.current_namespace = AllNs
    /\ cli.pc = "stream" /\ req[CliH].pc # "idle" =>
           /\ ValidIndex(cli.choice, cli.pods)
           /\ req[CliH].sid = CLI_SID
           /\ req[CliH].state = sessions[CLI_SID]
           /\ req[CliH].pod = Pod(cli.pods[IntOf(cli.choice)].namespace,
                                  cli.pods[IntOf(cli.choice)].name)
    /\ cli.choice \notin {"none", "q", "all", "", "EOF"}
           /\ ~ValidIndex(cli.choice, cli.pods) =>
           /\ cli.pc = "menu"
           /\ cli.current_namespace =
                  IF cli.choice \in ALLOWED_NAMESPACES THEN cli.choice ELSE cli.before

\* C19: after startup the registry always holds the session 'cli-session', and its
\* bundle is not the bundle of a web session
C19_CliSessionAlways ==
    /\ cli.pc \in {"menu", "serve", "stream", "shutdown"} => sessions[CLI_SID] # 0
    /\ \A sid \in WebSids : sessions[sid] # 0 => sessions[sid] # sessions[CLI_SID]

\* C20: when load_kubeconfig returns False the process exits with a status other than
\* 0, the web server thread was not started and no streamer worker was started
C20_ConfigErrorExitsFirst ==
    cli.kube = "failed" =>
        /\ cli.pc = "exited"
        /\ cli.status > 0
        /\ ~cli.flask
        /\ nthreads = 0
        /\ \A w \in Workers : thr[w].pc = "unborn"

C20_Witness ==
    /\ cli.kube = "failed"
    /\ cli.pc = "exited"
    /\ cli.status = 1

\* C21: when a streamer worker ends it has appended '__END__' exactly once, and the
\* current-pod reference of its bundle (state['current_pod'] in app.py, the module's
\* current_pod in appv2.py) is None when it has ended
C21_EndOnceThenNoPod ==
    [][\A w \in Workers :
          (~Done(w) /\ Done(w)') =>
              /\ Count(thr'[w].out, END) = 1
              /\ current_pod'[thr[w].state] = None]_vars

\* C22: in either program a worker whose upstream follow closed normally does not open
\* another follow: it goes to its exit path, appends '__END__' once and ends
C22_CloseEndsWorker ==
    \A w \in Workers :
        thr[w].why = "close" =>
            /\ thr[w].pc \in {"finally", "loop", "end", "done"}
            /\ thr[w].conn <= 1
            /\ Done(w) => Count(thr[w].out, END) = 1

\* C23: a /logs feed of app.py has emitted 'Log stream ended' and closed only if it
\* dequeued '__END__' (the event then bears the worker that put it); a closed feed
\* stays closed and emits nothing more
C23_EndedOnlyByEndMarker ==
    /\ \A c \in Conns :
          feed[c].pc = "closed" => feed[c].ev.kind = "ended" /\ feed[c].ev.by # 0
    /\ \A c \in Conns : feed[c].ev.kind = "ended" => feed[c].pc = "closed"

\* C24 as stated: a worker never appends an upstream line to the queue and the cache
\* at a moment when the stop signal of its bundle is set
C24_NoPutWhileStopped ==
    [][\A w \in Workers :
          (thr[w].pc = "put" /\ thr'[w].pc # "put") => ~stop_event[thr[w].state]]_vars

\* C24 as amended: a worker that tests the stop signal for a received line and finds it
\* set leaves its read loop, and that step appends nothing to the queue and the cache;
\* a line is forwarded only after a test that found the signal clear
C24_StopSeenLineNotForwarded ==
    [][\A w \in Workers :
          /\ (thr[w].pc = "check" /\ thr'[w].pc # "check" /\ stop_event[thr[w].state]) =>
                 /\ thr'[w].pc \in {"finally", "loop"}
                 /\ thr'[w].out = thr[w].out
                 /\ log_queue' = log_queue
                 /\ cache' = cache
          /\ (thr[w].pc # "put" /\ thr'[w].pc = "put") =>
                 thr[w].pc = "check" /\ ~stop_event[thr[w].state]]_vars

\* a worker of app.py found the stop signal set when it tested it for its second line:
\* it is on its exit path and has forwarded the first line only
C24_Witness ==
    \E w \in Workers :
        /\ variant = "app"
        /\ thr[w].pc = "finally" /\ thr[w].why = "stop"
        /\ stop_event[thr[w].state]
        /\ thr[w].pos = 2
        /\ thr[w].out = <<PodLog(thr[w].pod)[1]>>

\* C25: once the stop signal of a session of app.py is raised, its worker leaves the
\* loop on its next upstream read result (a line that arrived while the signal was set
\* is not forwarded), and the signal stays set until every attached /logs generator in
\* its polling loop has tested it, also when start_log_streaming follows the stop
C25_StopIsObserved ==
    [][/\ \A w \in Workers :
             (variant = "app" /\ thr[w].pc = "check" /\ thr'[w].pc = "put") =>
                 Len(thr[w].pre) = thr[w].pos
       /\ \A c \in Conns :
             (feed[c].pc = "loop" /\ stop_event[feed[c].state]) =>
                 (stop_event'[feed[c].state] \/ feed'[c].pc = "closed")]_vars

\* the call of stop_log_streaming by the handler h is under way
InStop(h) == req[h].pc \in {"stop_set", "stop_join", "joining"}

\* C26: stop_log_streaming always returns, also when the worker stays blocked in the
\* upstream read and never tests the stop signal: the join expires and the caller
\* (select_pod, stream_pod_logs) goes on to its next step and returns
C26_StopReturns ==
    /\ InStop(1) ~> ~InStop(1)
    /\ (req[1].kind = "select" /\ InStop(1)) ~> (req[1].pc = "idle" /\ req[1].resp = "OK")
    /\ (req[1].kind = "cli" /\ InStop(1)) ~> (req[1].pc = "cli_loop")

\* select_pod has returned while the worker it stopped is still blocked in its first
\* upstream read: the join expired
C26_Witness ==
    /\ req[1].kind = "select" /\ req[1].pc = "idle" /\ req[1].resp = "OK"
    /\ req[1].pod = Pod("kavosh", "p2")
    /\ thr[1].pc = "read" /\ thr[1].pos = 0
    /\ thr[2].pc # "unborn"

\* C27: the worker of app.py whose upstream raises ApiException appends one 'Error
\* streaming logs' line to the queue and to the cache list, then one '__END__' to the
\* queue, and ends; it does not read from the upstream again
C27_ErrorLineThenEnd ==
    [][\A w \in Workers :
          LET b == thr[w].state
              in_except == thr[w].pc = "except" /\ thr'[w].pc # "except"
              in_finally == thr[w].why = "error" /\ thr[w].pc = "finally"
                               /\ thr'[w].pc # "finally"
          IN  variant = "app" =>
                 /\ in_except =>
                        /\ log_queue'[b] = Append(log_queue[b], Item(ERROR_MSG, w))
                        /\ cache'[thr[w].pod] = Append(cache[thr[w].pod], ERROR_MSG)
                        /\ thr'[w].pc = "finally"
                 /\ in_finally =>
                        /\ log_queue'[b] = Append(log_queue[b], Item(END, w))
                        /\ cache' = cache
                        /\ thr'[w].pc = "done"
                        /\ Count(thr'[w].out, ERROR_MSG) = 1
                        /\ Count(thr'[w].out, END) = 1
                 /\ thr[w].why = "error" => thr'[w].pc \in {"except", "finally", "done"}]_vars

\* a worker of app.py has ended after the upstream raised ApiException behind the
\* first line: it has put the line, the error line and '__END__'
C27_Witness ==
    \E w \in Workers :
        /\ variant = "app" /\ Done(w) /\ thr[w].why = "error"
        /\ thr[w].out = <<PodLog(thr[w].pod)[1], ERROR_MSG, END>>
        /\ Count(cache[thr[w].pod], ERROR_MSG) = 1

\* C28: the worker of appv2.py appends one error line to the queue and to the cache
\* list on an upstream ApiException and goes back to its loop test; there it opens a
\* new upstream follow unless the stop signal is set, and it appends '__END__' only
\* when it has left the loop on a set stop signal
C28_RetryUntilStopped ==
    [][\A w \in Workers :
          LET b == thr[w].state
          IN  variant = "appv2" =>
                 /\ (thr[w].pc = "except" /\ thr'[w].pc # "except") =>
                        /\ log_queue'[b] = Append(log_queue[b], Item(ERROR_MSG, w))
                        /\ cache'[thr[w].pod] = Append(cache[thr[w].pod], ERROR_MSG)
                        /\ thr'[w].pc = "loop"
                 /\ (thr[w].pc = "loop" /\ thr'[w].pc # "loop") =>
                        IF stop_event[b] THEN thr'[w].pc = "end"
                        ELSE thr'[w].pc = "read" /\ thr'[w].conn = thr[w].conn + 1
                 /\ (thr[w].pc # "end" /\ thr'[w].pc = "end") =>
                        thr[w].pc = "loop" /\ stop_event[b]
                 /\ Count(thr'[w].out, END) > Count(thr[w].out, END) =>
                        thr[w].pc = "end" /\ thr'[w].pc = "done"]_vars

\* a worker of appv2.py reads from its second upstream follow after an ApiException
\* on the first, with one error line on the queue and the stop signal not set
C28_Witness ==
    \E w \in Workers :
        /\ variant = "appv2"
        /\ thr[w].conn = 2 /\ thr[w].pc = "read" /\ thr[w].why = "error"
        /\ Count(thr[w].out, ERROR_MSG) = 1
        /\ Count(cache[thr[w].pod], ERROR_MSG) = 1
        /\ ~stop_event[thr[w].state]

\* C29 as stated: every upstream follow of a worker of appv2.py but its first asks for
\* no tail replay and resumes from a timestamp
C29_TailOnlyOnFirst ==
    \A w \in Workers :
        (variant = "appv2" /\ thr[w].conn >= 2) =>
            thr[w].kw.tail_lines = 0 /\ thr[w].kw.since_time # <<>>

\* the forwarded lines whose split gave two parts, by their index in the history
Stamped(fwd) == {i \in 1..Len(fwd) : Len(Split(fwd[i])) = 2}

\* C29 as amended: a worker of appv2.py asks for the last 100 lines as long as it has
\* forwarded no line with a first token (so on its first follow), and from then on
\* asks for no tail replay and resumes from the first token of the last such line
C29_TailUntilTimestamp ==
    [][\A w \in Workers :
          (variant = "appv2" /\ thr[w].pc = "loop" /\ thr'[w].pc = "read") =>
              LET S == Stamped(thr[w].fwd)
                  last == CHOOSE i \in S : \A j \in S : j <= i
              IN  /\ thr[w].conn = 0 => S = {}
                  /\ IF S = {}
                     THEN thr'[w].kw = [tail_lines |-> 100, since_time |-> <<>>]
                     ELSE thr'[w].kw = [tail_lines |-> 0,
                                        since_time |-> <<Split(thr[w].fwd[last])[1]>>]]_vars

\* a worker of appv2.py has opened its second follow with no tail replay, from the
\* timestamp of the line it forwarded on the first
C29_Witness ==
    \E w \in Workers :
        /\ variant = "appv2"
        /\ thr[w].conn = 2 /\ thr[w].pc = "read"
        /\ thr[w].kw = [tail_lines |-> 0, since_time |-> << <<"t1">> >>]

\* the timestamps the cluster writes in front of a log line
Timestamps == {Stamps[i] : i \in 1..Len(Stamps)} \cup {"2024-01-01T00:00:00Z"}

\* the line is "<timestamp> <message>"
HasTimestamp(line) == Len(line) >= 2 /\ line[1] \in Timestamps /\ line[2] = SPACE

\* the message text of a line: what follows the timestamp, or the whole line
Text(line) == IF HasTimestamp(line) THEN SubSeq(line, 3, Len(line)) ELSE line

\* C30: the worker of appv2.py forwards the message text of every line it processes: the
\* text behind the timestamp, or the whole line when the line has no timestamp, and a
\* line without a timestamp leaves the resumption timestamp as it was
C30_NothingDropped ==
    [][\A w \in Workers :
          (variant = "appv2" /\ thr[w].pc = "put" /\ thr'[w].pc # "put") =>
              /\ log_queue'[thr[w].state] =
                     Append(log_queue[thr[w].state], Item(Text(thr[w].line), w))
              /\ ~HasTimestamp(thr[w].line) =>
                     thr'[w].last_timestamp = thr[w].last_timestamp]_vars

\* C31: for every line a worker processes, in app.py and in appv2.py, the queue
\* receives the message text (the line without its leading timestamp) and the cache
\* list of the worker's pod receives the line as the upstream sent it
C31_BodyToQueueRawToCache ==
    [][\A w \in Workers :
          (thr[w].pc = "put" /\ thr'[w].pc # "put") =>
              /\ log_queue'[thr[w].state] =
                     Append(log_queue[thr[w].state], Item(Text(thr[w].line), w))
              /\ cache'[thr[w].pod] = Trimmed(Append(cache[thr[w].pod], thr[w].line))]_vars

\* the worker w is the only worker that was started for its pod
Sole(w) == Born(w) /\ \A v \in Workers : (Born(v) /\ thr[v].pod = thr[w].pod) => v = w

\* the lines the worker w appended to the cache list of its pod since it started, in
\* order; the worker of the initial state had appended the lines found there
Appended(w) ==
    LET NotEnd(x) == x # END
    IN  (IF w = 1 THEN [i \in 1..(MAX_CACHE - 1) |-> OldLine(i)] ELSE <<>>)
            \o SelectSeq(thr[w].out, NotEnd)

\* the last n elements of a sequence, all of it when it is shorter
LastN(seq, n) == IF Len(seq) <= n THEN seq ELSE SubSeq(seq, Len(seq) - n + 1, Len(seq))

C33_RejectedWithoutEffect ==
    [][\A h \in Handlers :
          (/\ req'[h] # req[h]
           /\ req'[h].kind \in {"select", "start"}
           /\ req'[h].pod.namespace \notin ALLOWED_NAMESPACES) =>
              /\ UNCHANGED <<stop_event, stream_thread, thr, nthreads, log_queue,
                             current_pod, cache>>
              /\ req'[h].pc \in {"idle", "create", "start"}
              /\ req'[h].pc = "idle" /\ req'[h].kind = "select" => req'[h].resp = "403"]_vars

\* select_pod for a pod of ns1 was answered 403 while the worker of the session goes on
\* streaming, the stop signal clear
C33_Witness ==
    /\ req[1].kind = "select" /\ req[1].pod.namespace = "ns1"
    /\ req[1].pc = "idle" /\ req[1].resp = "403"
    /\ thr[1].pc = "put"
    /\ ~stop_event[1] /\ stream_thread[1] = 1 /\ current_pod[1] = Pod("kavosh", "p1")

\* the sequence p is a prefix of the sequence q
IsPrefix(p, q) == Len(p) <= Len(q) /\ SubSeq(q, 1, Len(p)) = p

\* C34: while the worker of a session streams a pod, no step of a select_pod of that
\* pod by another session removes a line from the pod's cache list: the list only grows
\* at its end
C34_OtherSessionKeepsCache ==
    [][\A h \in Handlers, w \in Workers :
          (/\ req'[h] # req[h]
           /\ InLoop(w)
           /\ thr[w].pod = req[h].pod
           /\ thr[w].state # req[h].state) =>
              IsPrefix(cache[req[h].pod], cache'[req[h].pod])]_vars

\* the lines of the items of a queue, '__END__' left out
LinesOf(items) ==
    LET NotEnd(x) == x.line # END
        kept == SelectSeq(items, NotEnd)
    IN  [i \in 1..Len(kept) |-> kept[i].line]

\* the elements of d occur in seq in the same order
InOrderOf(d, seq) ==
    \A i, j \in 1..Len(d) :
        i < j => \E m, n \in 1..Len(seq) : m < n /\ seq[m] = d[i] /\ seq[n] = d[j]

\* C35: with two /logs connections on one session's queue, every line the worker has
\* put is on the queue or was dequeued by exactly one connection, each connection got
\* its lines in the order they were put, and the worker's '__END__' closes at most one
\* connection, the one that dequeued it
C35_EachLineToOneConnection ==
    LET NotEnd(x) == x # END
        lines == SelectSeq(thr[1].out, NotEnd)
        d1 == LinesOf(feed[1].deq)
        d2 == LinesOf(feed[2].deq)
        q == LinesOf(log_queue[1])
    IN  /\ \A i \in 1..Len(lines) :
              Count(d1, lines[i]) + Count(d2, lines[i]) + Count(q, lines[i]) = 1
        /\ Len(d1) + Len(d2) + Len(q) = Len(lines)
        /\ InOrderOf(d1, lines) /\ InOrderOf(d2, lines)
        /\ d1 = feed[1].got /\ d2 = feed[2].got
        /\ Cardinality({c \in Conns2 : feed[c].pc = "closed"}) <= Count(thr[1].out, END)
        /\ \A c \in Conns2 : feed[c].pc = "closed" => feed[c].ev.by = 1

\* each of the two connections has delivered one of the worker's two lines; the first
\* dequeued '__END__' and is closed, the second still polls
C35_Witness ==
    /\ feed[1].got = <<PodLog(Pod("kavosh", "p1"))[2]>>
    /\ feed[2].got = <<PodLog(Pod("kavosh", "p1"))[1]>>
    /\ feed[1].pc = "closed"
    /\ feed[2].pc = "loop"
    /\ Done(1) /\ log_queue[1] = <<>>

\* C36: in app.py, whenever the worker most recently started for a session (the one
\* state['stream_thread'] refers to) is alive and has not reached its exit path, the
\* session's current_pod is that worker's pod and is not None
C36_CurrentPodOfNewestWorker ==
    \A b \in Bundles :
        LET w == stream_thread[b]
        IN  (w # 0 /\ thr[w].pc \in {"loop", "read", "check", "put", "except"}) =>
                /\ current_pod[b] # None
                /\ current_pod[b] = thr[w].pod

\* no input_reader thread has read a line typed at the menu prompt
MenuLinesReachMain == \A i \in 1..Len(cli.read) : cli.read[i].at # "menu"

\* a streaming run that ended by 'q' ended by a 'q' typed during that same run
QuitTypedInRun ==
    cli.ended.why = "q" => cli.ended.at = "run" /\ cli.ended.run = cli.ended.of

\* C37: in app.py every line typed at the menu prompt is read by the menu loop of
\* main, none by an input_reader thread of an earlier streaming run, and
\* stream_pod_logs returns because of a 'q' only when it was typed during that same
\* run, never because of an entry an earlier run left in the input_queue
C37_InputRouting == MenuLinesReachMain /\ QuitTypedInRun
====
